---- MODULE Spec2Model ----
(***************************************************************************)
(* Smart Sort pipeline of the OmniFocus sync plugin (src/src/smart-sort.ts) *)
(* Texts are sequences of one-character strings; JSON values are tagged    *)
(* records.  Numbers are exact decimals n/d with d a power of ten.         *)
(***************************************************************************)
EXTENDS Integers, Sequences, FiniteSets, Bags, TLC

\* ------------------------------------------------------------------------
\* Characters and text helpers (JavaScript String primitives)
\* ------------------------------------------------------------------------
QUOTE == "\""
BSLASH == "\\"
\* U+0060 (the lexer of TLA+ has no literal for it)
TICK == "<backquote>"
NL == "\n"
TAB == "\t"
SP == " "

\* characters matched by \s and removed by String.prototype.trim
Ws == {SP, NL, TAB}

Digits == {"0", "1", "2", "3", "4", "5", "6", "7", "8", "9"}

DigitVal(c) ==
  CASE c = "0" -> 0 [] c = "1" -> 1 [] c = "2" -> 2 [] c = "3" -> 3
    [] c = "4" -> 4 [] c = "5" -> 5 [] c = "6" -> 6 [] c = "7" -> 7
    [] c = "8" -> 8 [] c = "9" -> 9

SetMin(S) == CHOOSE x \in S : \A y \in S : x <= y
SetMax(S) == CHOOSE x \in S : \A y \in S : x >= y

\* s.startsWith(p, i-1)
StartsWithAt(s, i, p) ==
  /\ i >= 1
  /\ i + Len(p) - 1 <= Len(s)
  /\ SubSeq(s, i, i + Len(p) - 1) = p

\* first position >= i that does not hold a whitespace character (\s* greedy)
RECURSIVE WsRun(_, _)
WsRun(s, i) == IF i <= Len(s) /\ s[i] \in Ws THEN WsRun(s, i + 1) ELSE i

\* String.prototype.trim
Trim(s) ==
  LET I == {i \in 1..Len(s) : s[i] \notin Ws}
  IN IF I = {} THEN <<>> ELSE SubSeq(s, SetMin(I), SetMax(I))

\* String.prototype.toLowerCase on the letters the model uses
LowerChar(c) ==
  CASE c = "A" -> "a" [] c = "B" -> "b" [] c = "C" -> "c" [] c = "T" -> "t"
    [] OTHER -> c

ToLowerCase(s) == [i \in 1..Len(s) |-> LowerChar(s[i])]

\* ------------------------------------------------------------------------
\* Response repair
\* ------------------------------------------------------------------------
Fence == <<TICK, TICK, TICK>>
FenceJson == Fence \o <<"j", "s", "o", "n">>

\* length of the match of /<fence>json\s*|\s*<fence>/ at position i, 0 if none
\* (<fence> is three U+0060)
fenceMatchLen(s, i) ==
  IF StartsWithAt(s, i, FenceJson) THEN WsRun(s, i + Len(FenceJson)) - i
  ELSE IF StartsWithAt(s, WsRun(s, i), Fence) THEN WsRun(s, i) + Len(Fence) - i
  ELSE 0

\* content.replace(/<fence>json\s*|\s*<fence>/g, ''): leftmost matches, left to right
RECURSIVE StripFencesFrom(_, _)
StripFencesFrom(s, i) ==
  LET M == {p \in i..Len(s) : fenceMatchLen(s, p) > 0}
  IN IF M = {} THEN SubSeq(s, i, Len(s))
     ELSE SubSeq(s, i, SetMin(M) - 1) \o StripFencesFrom(s, SetMin(M) + fenceMatchLen(s, SetMin(M)))

StripFences(s) == StripFencesFrom(s, 1)

\* /,\s*X/ matches at position i, for a closing character X
commaMatch(s, i, close) == s[i] = "," /\ StartsWithAt(s, WsRun(s, i + 1), <<close>>)

\* s.replace(/,\s*X/g, 'X'): leftmost matches, left to right
RECURSIVE RelaxFrom(_, _, _)
RelaxFrom(s, i, close) ==
  LET M == {p \in i..Len(s) : commaMatch(s, p, close)}
  IN IF M = {} THEN SubSeq(s, i, Len(s))
     ELSE SubSeq(s, i, SetMin(M) - 1) \o <<close>>
            \o RelaxFrom(s, WsRun(s, SetMin(M) + 1) + 1, close)

relaxJson(s) == RelaxFrom(RelaxFrom(s, 1, "]"), 1, "}")

\* a replace that removes nothing
DropDanglingComma_Keep(t) == t

\* t.replace(/,\s*$/, ''): the leftmost comma followed only by whitespace
DropDanglingComma(t) ==
  LET I == {i \in 1..Len(t) : t[i] = "," /\ WsRun(t, i + 1) > Len(t)}
  IN IF I = {} THEN t ELSE SubSeq(t, 1, SetMin(I) - 1)

closeTruncatedArray(s) ==
  LET t == Trim(s)
  IN IF StartsWithAt(t, 1, <<"[">>) /\ ~StartsWithAt(t, Len(t), <<"]">>)
       THEN DropDanglingComma(t) \o <<"]">>
       ELSE s

\* ------------------------------------------------------------------------
\* JSON values and JSON.parse
\* ------------------------------------------------------------------------
Null == [t |-> "null"]
Undefined == [t |-> "undefined"]
SyntaxError == [t |-> "error"]

RECURSIVE Pow10(_)
Pow10(k) == IF k <= 0 THEN 1 ELSE 10 * Pow10(k - 1)

\* exact decimal n/d in lowest power-of-ten terms
RECURSIVE NormNum(_, _)
NormNum(n, d) ==
  IF d > 1 /\ n % 10 = 0 THEN NormNum(n \div 10, d \div 10)
  ELSE [t |-> "num", n |-> n, d |-> d]

Num(k) == [t |-> "num", n |-> k, d |-> 1]
Str(s) == [t |-> "str", s |-> s]
Arr(e) == [t |-> "arr", e |-> e]
Obj(kv) == [t |-> "obj", kv |-> kv]

Fail == [ok |-> FALSE, v |-> SyntaxError, p |-> 0]
Ok(v, p) == [ok |-> TRUE, v |-> v, p |-> p]

\* digits starting at i: value, count, next position
RECURSIVE ScanDigits(_, _, _, _)
ScanDigits(s, i, acc, cnt) ==
  IF i <= Len(s) /\ s[i] \in Digits
    THEN ScanDigits(s, i + 1, 10 * acc + DigitVal(s[i]), cnt + 1)
    ELSE [v |-> acc, cnt |-> cnt, p |-> i]

\* JSON number: -? (0 | [1-9][0-9]*) (. [0-9]+)? ([eE] [+-]? [0-9]+)?
ParseNumber(s, i) ==
  LET neg == StartsWithAt(s, i, <<"-">>)
      i1 == IF neg THEN i + 1 ELSE i
      ip == ScanDigits(s, i1, 0, 0)
      intOk == ip.cnt >= 1 /\ (ip.cnt = 1 \/ s[i1] # "0")
      hasFrac == StartsWithAt(s, ip.p, <<".">>)
      fp == IF hasFrac THEN ScanDigits(s, ip.p + 1, 0, 0)
                       ELSE [v |-> 0, cnt |-> 0, p |-> ip.p]
      fracOk == ~hasFrac \/ fp.cnt >= 1
      hasExp == fp.p <= Len(s) /\ s[fp.p] \in {"e", "E"}
      esign == IF hasExp /\ fp.p + 1 <= Len(s) /\ s[fp.p + 1] \in {"+", "-"}
                 THEN 1 ELSE 0
      eneg == hasExp /\ StartsWithAt(s, fp.p + 1, <<"-">>)
      ep == IF hasExp THEN ScanDigits(s, fp.p + 1 + esign, 0, 0)
                      ELSE [v |-> 0, cnt |-> 0, p |-> fp.p]
      expOk == ~hasExp \/ ep.cnt >= 1
      mant == ip.v * Pow10(fp.cnt) + fp.v
      num == IF eneg THEN mant ELSE mant * Pow10(ep.v)
      den == IF eneg THEN Pow10(fp.cnt) * Pow10(ep.v) ELSE Pow10(fp.cnt)
  IN IF intOk /\ fracOk /\ expOk
       THEN Ok(NormNum(IF neg THEN 0 - num ELSE num, den), ep.p)
       ELSE Fail

EscapeChar(c) ==
  CASE c = "n" -> NL [] c = "t" -> TAB [] c = "r" -> "<CR>"
    [] c = "b" -> "<BS>" [] c = "f" -> "<FF>" [] OTHER -> c

\* body of a JSON string after the opening quote
RECURSIVE ParseStrBody(_, _, _)
ParseStrBody(s, i, acc) ==
  IF i > Len(s) THEN Fail
  ELSE IF s[i] = QUOTE THEN Ok(Str(acc), i + 1)
  ELSE IF s[i] = BSLASH
    THEN IF i + 1 <= Len(s) /\ s[i + 1] \in {QUOTE, BSLASH, "/", "b", "f", "n", "r", "t"}
           THEN ParseStrBody(s, i + 2, Append(acc, EscapeChar(s[i + 1])))
           ELSE Fail
  ELSE IF s[i] \in {NL, TAB} THEN Fail
  ELSE ParseStrBody(s, i + 1, Append(acc, s[i]))

RECURSIVE ParseValue(_, _)
RECURSIVE ParseElems(_, _, _)
RECURSIVE ParseMembers(_, _, _)

ParseValue(s, i) ==
  LET j == WsRun(s, i)
  IN IF j > Len(s) THEN Fail
     ELSE IF s[j] = "["
       THEN IF StartsWithAt(s, WsRun(s, j + 1), <<"]">>)
              THEN Ok(Arr(<<>>), WsRun(s, j + 1) + 1)
              ELSE ParseElems(s, j + 1, <<>>)
     ELSE IF s[j] = "{"
       THEN IF StartsWithAt(s, WsRun(s, j + 1), <<"}">>)
              THEN Ok(Obj(<<>>), WsRun(s, j + 1) + 1)
              ELSE ParseMembers(s, j + 1, <<>>)
     ELSE IF s[j] = QUOTE THEN ParseStrBody(s, j + 1, <<>>)
     ELSE IF s[j] \in Digits \cup {"-"} THEN ParseNumber(s, j)
     ELSE IF StartsWithAt(s, j, <<"t", "r", "u", "e">>)
       THEN Ok([t |-> "bool", b |-> TRUE], j + 4)
     ELSE IF StartsWithAt(s, j, <<"f", "a", "l", "s", "e">>)
       THEN Ok([t |-> "bool", b |-> FALSE], j + 5)
     ELSE IF StartsWithAt(s, j, <<"n", "u", "l", "l">>)
       THEN Ok(Null, j + 4)
     ELSE Fail

ParseElems(s, i, acc) ==
  LET r == ParseValue(s, i)
      k == WsRun(s, r.p)
  IN IF ~r.ok \/ k > Len(s) THEN Fail
     ELSE IF s[k] = "," THEN ParseElems(s, k + 1, Append(acc, r.v))
     ELSE IF s[k] = "]" THEN Ok(Arr(Append(acc, r.v)), k + 1)
     ELSE Fail

ParseMembers(s, i, acc) ==
  LET j == WsRun(s, i)
      key == IF StartsWithAt(s, j, <<QUOTE>>) THEN ParseStrBody(s, j + 1, <<>>) ELSE Fail
      c == WsRun(s, key.p)
      val == IF key.ok /\ StartsWithAt(s, c, <<":">>) THEN ParseValue(s, c + 1) ELSE Fail
      k == WsRun(s, val.p)
  IN IF ~val.ok \/ k > Len(s) THEN Fail
     ELSE IF s[k] = ","
       THEN ParseMembers(s, k + 1, Append(acc, [k |-> key.v.s, v |-> val.v]))
     ELSE IF s[k] = "}"
       THEN Ok(Obj(Append(acc, [k |-> key.v.s, v |-> val.v])), k + 1)
     ELSE Fail

\* the whole text must be one value
wholeText(s, r) == IF r.ok /\ WsRun(s, r.p) > Len(s) THEN r.v ELSE SyntaxError

\* JSON.parse(s): the value, or SyntaxError when it throws
JSONParse(s) == wholeText(s, ParseValue(s, 1))

\* x.key for a parsed value (a later duplicate key wins; absent is undefined)
Prop(x, key) ==
  IF x.t # "obj" THEN Undefined
  ELSE LET I == {i \in 1..Len(x.kv) : x.kv[i].k = key}
       IN IF I = {} THEN Undefined ELSE x.kv[SetMax(I)].v

\* ------------------------------------------------------------------------
\* Response parsers
\* ------------------------------------------------------------------------
KeyProject == <<"p", "r", "o", "j", "e", "c", "t">>
KeyReasoning == <<"r", "e", "a", "s", "o", "n", "i", "n", "g">>
KeyTask == <<"t", "a", "s", "k">>
KeySuggestion == <<"s", "u", "g", "g", "e", "s", "t", "i", "o", "n">>
KeyType == <<"t", "y", "p", "e">>

\* x >= 0 && x <= projectsLen on a number value
InRange(x, projectsLen) == x.n >= 0 /\ x.n <= projectsLen * x.d

IsInteger(x) == x.t = "num" /\ x.d = 1

\* typeof reasoning === 'string' && reasoning.trim() ? reasoning.trim() : undefined
ReasoningOf(r) ==
  IF r.t = "str" /\ Trim(r.s) # <<>> THEN Str(Trim(r.s)) ELSE Undefined

Assignment(project, reasoning) == [t |-> "assignment", project |-> project, reasoning |-> reasoning]

parsePhase1Entry(x, projectsLen) ==
  IF x.t = "num" /\ InRange(x, projectsLen)
    THEN Assignment(x, Undefined)
  ELSE IF x.t = "obj" /\ Prop(x, KeyProject).t = "num"
            /\ InRange(Prop(x, KeyProject), projectsLen)
    THEN Assignment(Prop(x, KeyProject), ReasoningOf(Prop(x, KeyReasoning)))
  ELSE Null

\* the repair chain of parsePhase1Response
cleanPhase1(content) == closeTruncatedArray(relaxJson(Trim(StripFences(content))))

\* parsePhase1Array without the length check
parsePhase1Array_AnyLength(arr, tasksLen, projectsLen) ==
  IF arr.t # "arr" THEN Null
  ELSE IF \E i \in 1..Len(arr.e) : parsePhase1Entry(arr.e[i], projectsLen) = Null THEN Null
  ELSE Arr([i \in 1..Len(arr.e) |-> parsePhase1Entry(arr.e[i], projectsLen)])

\* the body of the try block once JSON.parse has returned arr
parsePhase1Array(arr, tasksLen, projectsLen) ==
  IF arr.t # "arr" \/ Len(arr.e) # tasksLen THEN Null
  ELSE IF \E i \in 1..Len(arr.e) : parsePhase1Entry(arr.e[i], projectsLen) = Null THEN Null
  ELSE Arr([i \in 1..Len(arr.e) |-> parsePhase1Entry(arr.e[i], projectsLen)])

parsePhase1Response(content, tasksLen, projectsLen) ==
  parsePhase1Array(JSONParse(cleanPhase1(content)), tasksLen, projectsLen)

\* the repair chain of parsePhase2Response
cleanPhase2(content) == relaxJson(Trim(StripFences(content)))

\* validSuggestion that looks at the task field only
validSuggestion_TaskOnly(x) == x.t = "obj" /\ Prop(x, KeyTask).t = "str"

validSuggestion(x) ==
  x.t = "obj" /\ Prop(x, KeyTask).t = "str" /\ Prop(x, KeySuggestion).t = "str"

\* the body of the try block once JSON.parse has returned arr
parsePhase2Array(arr) ==
  IF arr.t # "arr" THEN Null
  ELSE IF ~(\A i \in 1..Len(arr.e) : validSuggestion(arr.e[i])) THEN Null
  ELSE arr

parsePhase2Response(content) == parsePhase2Array(JSONParse(cleanPhase2(content)))

\* ------------------------------------------------------------------------
\* Text of a value (String(number), JSON text of a chat response)
\* ------------------------------------------------------------------------
DigitChar(k) ==
  CASE k = 0 -> "0" [] k = 1 -> "1" [] k = 2 -> "2" [] k = 3 -> "3" [] k = 4 -> "4"
    [] k = 5 -> "5" [] k = 6 -> "6" [] k = 7 -> "7" [] k = 8 -> "8" [] k = 9 -> "9"

RECURSIVE NatText(_)
NatText(k) == IF k < 10 THEN <<DigitChar(k)>> ELSE NatText(k \div 10) \o <<DigitChar(k % 10)>>

\* the digits of k written with as many places as d has zeros
RECURSIVE FracText(_, _)
FracText(k, d) ==
  IF d <= 1 THEN <<>>
  ELSE <<DigitChar(k \div (d \div 10))>> \o FracText(k % (d \div 10), d \div 10)

\* String(x) of a number: the template literal `${idx}`
NumText(x) ==
  LET a == IF x.n < 0 THEN 0 - x.n ELSE x.n
  IN (IF x.n < 0 THEN <<"-">> ELSE <<>>) \o NatText(a \div x.d)
       \o (IF x.d > 1 THEN <<".">> \o FracText(a % x.d, x.d) ELSE <<>>)

RECURSIVE Join(_, _)
Join(parts, sep) ==
  IF parts = <<>> THEN <<>>
  ELSE IF Len(parts) = 1 THEN parts[1]
  ELSE parts[1] \o sep \o Join(Tail(parts), sep)

\* a string literal; quote and backslash are escaped
RECURSIVE EscapeText(_)
EscapeText(s) ==
  IF s = <<>> THEN <<>>
  ELSE (IF Head(s) \in {QUOTE, BSLASH} THEN <<BSLASH, Head(s)>>
        ELSE IF Head(s) = NL THEN <<BSLASH, "n">>
        ELSE <<Head(s)>>) \o EscapeText(Tail(s))

StrText(s) == <<QUOTE>> \o EscapeText(s) \o <<QUOTE>>

\* compact JSON text of a value, as a chat model writes it
RECURSIVE JsonText(_)
JsonText(v) ==
  CASE v.t = "num" -> NumText(v)
    [] v.t = "str" -> StrText(v.s)
    [] v.t = "null" -> <<"n", "u", "l", "l">>
    [] v.t = "bool" -> IF v.b THEN <<"t", "r", "u", "e">> ELSE <<"f", "a", "l", "s", "e">>
    [] v.t = "arr" -> <<"[">> \o Join([i \in 1..Len(v.e) |-> JsonText(v.e[i])], <<",">>) \o <<"]">>
    [] v.t = "obj" ->
         <<"{">> \o Join([i \in 1..Len(v.kv) |->
                            StrText(v.kv[i].k) \o <<":">> \o JsonText(v.kv[i].v)], <<",">>)
           \o <<"}">>

\* ------------------------------------------------------------------------
\* Settings and chat client configuration
\* ------------------------------------------------------------------------
\* getLLMModel that does not trim the two fields
getLLMModel_Untrimmed(st) ==
  IF st.llmModelOverrides # <<>> THEN st.llmModelOverrides ELSE st.llmModel

\* getLLMModel(settings, 'smartSort')
getLLMModel(st) ==
  LET defaultModel == Trim(st.llmModel)
      override == Trim(st.llmModelOverrides)
  IN IF override # <<>> THEN override ELSE defaultModel

\* ctx.getConfig() as the block builds it, with the model replaced by smartSort
getConfig(st) ==
  [provider |-> st.llmProvider, apiKey |-> st.llmApiKey, baseUrl |-> Trim(st.llmBaseUrl),
   model |-> getLLMModel(st)]

isLLMConfigured(config) ==
  CASE config.provider \in {"openrouter", "openai"} -> Trim(config.apiKey) # <<>>
    [] config.provider = "custom" -> Trim(config.baseUrl) # <<>>
    [] config.provider = "ollama" -> TRUE
    [] OTHER -> FALSE

\* ------------------------------------------------------------------------
\* URL enrichment (preprocessTasks)
\* ------------------------------------------------------------------------
CONCURRENCY == 3

\* one character stands for a whole URL
URL == "<url>"

\* extractUrlFromTask(name, note): the first URL in the name, else in the note
extractUrlFromTask(name, note) ==
  IF \E i \in 1..Len(name) : name[i] = URL THEN Str(<<URL>>)
  ELSE IF \E i \in 1..Len(note) : note[i] = URL THEN Str(<<URL>>)
  ELSE Null

\* s.replace(url, ''): the first occurrence only
RemoveFirst(s, c) ==
  LET I == {i \in 1..Len(s) : s[i] = c}
  IN IF I = {} THEN s
     ELSE SubSeq(s, 1, SetMin(I) - 1) \o SubSeq(s, SetMin(I) + 1, Len(s))

\* s.replace(/\s{2,}/g, ' ')
RECURSIVE CollapseWs(_, _)
CollapseWs(s, i) ==
  IF i > Len(s) THEN <<>>
  ELSE IF WsRun(s, i) >= i + 2 THEN <<SP>> \o CollapseWs(s, WsRun(s, i))
  ELSE <<s[i]>> \o CollapseWs(s, i + 1)

\* [description, url, noteWithoutUrl].filter(Boolean).join(' ')
newNoteOf(task, meta) ==
  LET noteWithoutUrl == CollapseWs(Trim(RemoveFirst(task.note, URL)), 1)
      parts == <<meta.description, <<URL>>, noteWithoutUrl>>
      kept == SelectSeq(parts, LAMBDA x : x # <<>>)
  IN Join(kept, <<SP>>)

\* the task returned by the enrichment callback once metadata was found
renamed(task, meta) == [id |-> task.id, name |-> meta.title, note |-> newNoteOf(task, meta)]

\* page metadata a fetch can return (title, description or null as empty)
Metas == {[title |-> <<"T">>, description |-> <<"d">>], [title |-> <<"a">>, description |-> <<>>]}

\* ------------------------------------------------------------------------
\* Phase 1 resolution and Phase 2 matching
\* ------------------------------------------------------------------------
ProjectWord == <<"P", "r", "o", "j", "e", "c", "t", SP>>

Item(task, projectName, type, reasoning) ==
  [taskId |-> task.id, taskName |-> task.name, projectName |-> projectName,
   type |-> type, reasoning |-> reasoning]

\* idx > 0 && idx <= projects.length
fits(idx, projects) == idx.n > 0 /\ idx.n <= Len(projects) * idx.d

\* projects[idx - 1]?.name ?? `Project ${idx}`
projectNameOf(idx, projects) ==
  IF IsInteger(idx) /\ idx.n >= 1 /\ idx.n <= Len(projects)
    THEN projects[idx.n].name
    ELSE ProjectWord \o NumText(idx)

RECURSIVE buildFrom(_, _, _, _, _, _)
buildFrom(assignments, tasks, projects, i, items, noFitTasks) ==
  IF i > Len(tasks) THEN [items |-> items, noFitTasks |-> noFitTasks]
  ELSE IF fits(assignments.e[i].project, projects)
    THEN buildFrom(assignments, tasks, projects, i + 1,
                   Append(items, Item(tasks[i],
                                      projectNameOf(assignments.e[i].project, projects),
                                      "existing", assignments.e[i].reasoning)),
                   noFitTasks)
  ELSE buildFrom(assignments, tasks, projects, i + 1, items, Append(noFitTasks, tasks[i]))

buildPhase1Items(assignments, tasks, projects) ==
  IF assignments = Null THEN [items |-> <<>>, noFitTasks |-> <<>>]
  ELSE buildFrom(assignments, tasks, projects, 1, <<>>, <<>>)

\* a comparison of the names as they are
sameName_Exact(a, b) == a = b

\* t.name.trim().toLowerCase() === s.task.trim().toLowerCase()
sameName(a, b) == ToLowerCase(Trim(a)) = ToLowerCase(Trim(b))

\* the loop over suggestions of runPhase2: noFitTasks.find, then items.push
RECURSIVE matchSuggestions(_, _, _, _)
matchSuggestions(suggestions, noFitTasks, i, items) ==
  IF i > Len(suggestions) THEN items
  ELSE LET sg == suggestions[i]
           I == {k \in 1..Len(noFitTasks) : sameName(noFitTasks[k].name, Prop(sg, KeyTask).s)}
           ty == Prop(sg, KeyType)
           type == IF ty.t = "str" /\ ty.s = <<"a", "r", "e", "a">> THEN "area" ELSE "project"
       IN IF I = {} THEN matchSuggestions(suggestions, noFitTasks, i + 1, items)
          ELSE matchSuggestions(suggestions, noFitTasks, i + 1,
                 Append(items, Item(noFitTasks[SetMin(I)], Prop(sg, KeySuggestion).s, type,
                                    Prop(sg, KeyReasoning))))

\* ------------------------------------------------------------------------
\* Results of a run
\* ------------------------------------------------------------------------
Pending == [t |-> "pending"]
NoError == [t |-> "none"]
Error(prefix, detail) == [t |-> "error", prefix |-> prefix, detail |-> detail]
Result(items, processedCount, totalCount, error) ==
  [t |-> "result", items |-> items, processedCount |-> processedCount,
   totalCount |-> totalCount, error |-> error]
Thrown(kind, message) == [t |-> "thrown", kind |-> kind, message |-> message]

EmptyResponse == <<"(empty response from LLM)">>

\* content?.trim() ? content : '(empty response from LLM)'
rawOrEmpty(content) == IF Trim(content) # <<>> THEN content ELSE EmptyResponse

\* a slice that keeps every task
Slice_Uncapped(tasks, maxBatch) == tasks

\* tasks.slice(0, maxBatch) for maxBatch >= 0
Slice(tasks, maxBatch) ==
  SubSeq(tasks, 1, IF maxBatch < Len(tasks) THEN maxBatch ELSE Len(tasks))

\* ------------------------------------------------------------------------
\* Bounds and the inputs a run draws from
\* ------------------------------------------------------------------------
MaxInbox == 4
MaxProjects == 2
MaxBatch == 2

Task(id, name, note) == [id |-> id, name |-> name, note |-> note]

\* inbox tasks of the store; an inbox is a window of this list
TaskPool ==
  << Task("t1", <<URL>>, <<>>),
     Task("t2", <<"a">>, <<>>),
     Task("t3", <<SP, "A">>, <<"n">>),
     Task("t4", <<"b">>, <<>>),
     Task("t5", <<"a">>, <<"x", SP, SP, URL>>) >>

Inboxes ==
  {SubSeq(TaskPool, i, i + k - 1) : <<i, k>> \in
     {w \in (1..Len(TaskPool)) \X (0..MaxInbox) : w[1] + w[2] - 1 <= Len(TaskPool)}}

ProjectPool ==
  << [name |-> <<"H">>, note |-> <<>>], [name |-> <<"W">>, note |-> <<"w">>],
     [name |-> <<"G">>, note |-> <<>>], [name |-> <<"F">>, note |-> <<>>] >>

ProjectLists == {SubSeq(ProjectPool, 1, k) : k \in 0..MaxProjects}

Settings(provider, apiKey, baseUrl, model, override, maxBatch) ==
  [llmProvider |-> provider, llmApiKey |-> apiKey, llmBaseUrl |-> baseUrl,
   llmModel |-> model, llmModelOverrides |-> override,
   smartSortMaxTasksPerBatch |-> maxBatch]

Providers == {"openrouter", "openai", "ollama", "custom", "other"}
KeyTexts == {<<>>, <<SP>>, <<"k">>}
ModelTexts == {<<>>, <<SP>>, <<SP, "m", SP>>}

\* every combination of provider, credentials and model fields
AllSettings ==
  {Settings(pr, k, u, m, o, 1) : pr \in Providers, k \in KeyTexts, u \in KeyTexts,
                                 m \in ModelTexts, o \in ModelTexts}

\* the settings of the runs that vary the store instead
RunSettings ==
  {Settings(pr[1], pr[2], <<>>, pr[3], pr[4], mb) :
     pr \in {<<"openrouter", <<"k">>, <<"m">>, <<>>>>,
             <<"openrouter", <<SP>>, <<"m">>, <<>>>>,
             <<"ollama", <<>>, <<SP>>, <<>>>>},
     mb \in 1..MaxBatch}

\* ---- Phase 1 responses of the chat model for n tasks and N projects ----
ReasonText == <<SP, "r">>

Phase1Object(project) ==
  Obj(<<[k |-> KeyProject, v |-> project], [k |-> KeyReasoning, v |-> Str(ReasonText)]>>)

\* task i goes to project ((i-1) mod N)+1 when chosen is true for it, else to 0
PatternEntry(f, i, N) == IF f[i] /\ N > 0 THEN Num(((i - 1) % N) + 1) ELSE Num(0)

Patterns(n, N) == IF N = 0 THEN {[i \in 1..n |-> FALSE]} ELSE [1..n -> BOOLEAN]

Phase1Good(n, N) ==
  {JsonText(Arr([i \in 1..n |-> Phase1Object(PatternEntry(f, i, N))])) : f \in Patterns(n, N)}

\* bare numbers inside a code fence, and an array cut off after a comma
Phase1Repaired(n, N) ==
  { FenceJson \o <<NL>> \o JsonText(Arr([i \in 1..n |-> Num(0)])) \o <<NL>> \o Fence,
    <<"[">> \o Join([i \in 1..n |-> JsonText(Phase1Object(Num(IF N > 0 THEN 1 ELSE 0)))], <<",">>)
      \o <<",", SP>> }

\* a fractional index inside the numeric range
Phase1Fraction(n, N) ==
  IF N = 0 THEN {}
  ELSE {JsonText(Arr([i \in 1..n |-> IF i = 1 THEN Phase1Object(NormNum(5, 10))
                                               ELSE Phase1Object(Num(0))]))}

Phase1Bad(n, N) ==
  { <<"n", "o">>,
    <<SP>>,
    JsonText(Arr([i \in 1..(n + 1) |-> Phase1Object(Num(0))])),
    JsonText(Arr([i \in 1..n |-> Phase1Object(Num(IF i = n THEN N + 1 ELSE 0))])) }

Phase1Responses(n, N) ==
  Phase1Good(n, N) \cup Phase1Repaired(n, N) \cup Phase1Fraction(n, N) \cup Phase1Bad(n, N)

\* ---- Phase 2 responses of the chat model for the no-fit tasks ----
AreaText == <<"a", "r", "e", "a">>
ProjectText == <<"p", "r", "o", "j", "e", "c", "t">>

\* the same name in capital letters
Shout(name) ==
  [i \in 1..Len(name) |-> CASE name[i] = "a" -> "A" [] name[i] = "b" -> "B" [] OTHER -> name[i]]

Suggestion(task, suggestion, type) ==
  Obj(<<[k |-> KeyTask, v |-> Str(task)], [k |-> KeySuggestion, v |-> Str(suggestion)],
        [k |-> KeyType, v |-> Str(type)]>>)

\* one suggestion per no-fit task, in order
Phase2PerTask(noFitTasks) ==
  [i \in 1..Len(noFitTasks) |->
     Suggestion(noFitTasks[i].name, <<"N">>, IF i % 2 = 1 THEN ProjectText ELSE AreaText)]

Phase2Responses(noFitTasks) ==
  { JsonText(Arr(Phase2PerTask(noFitTasks))),
    \* the first task named again, in other letter case, and a type 'Area'
    JsonText(Arr(<<Suggestion(noFitTasks[1].name, <<"N">>, ProjectText),
                   Suggestion(<<SP>> \o Shout(noFitTasks[1].name), <<"M">>, AreaText),
                   Suggestion(noFitTasks[1].name, <<"M">>, Shout(AreaText))>>)),
    \* a task name the batch does not have, and a trailing comma
    <<"[">> \o JsonText(Suggestion(<<"z">>, <<"N">>, ProjectText)) \o <<",", "]">>,
    JsonText(Arr(<<>>)),
    \* an element without a suggestion field
    JsonText(Arr(<<Suggestion(noFitTasks[1].name, <<"N">>, AreaText),
                   Obj(<<[k |-> KeyTask, v |-> Str(noFitTasks[1].name)]>>)>>)),
    \* not an array
    JsonText(Suggestion(noFitTasks[1].name, <<"N">>, AreaText)),
    <<>> }

\* ------------------------------------------------------------------------
\* State
\* ------------------------------------------------------------------------
VARIABLES
  settings,       \* PluginSettings of the run
  store,          \* the task store: inbox tasks and projects
  pc,             \* where smartSort is suspended
  projects,       \* smartSort: fetched projects
  rawTasks,       \* smartSort: fetched inbox tasks
  chunkAt,        \* runWithConcurrency: first index of the chunk being awaited
  enrich,         \* per raw task: state of its enrichment callback and its result
  tasks,          \* smartSort: the capped batch
  phase1Content,  \* runPhase1: text of the first response
  retryContent,   \* runPhase1: text of the retry response
  assignments,    \* runPhase1: parsed assignments or Null
  items,          \* items built so far
  noFitTasks,     \* tasks left for Phase 2
  outcome,        \* Pending, the SmartSortResult returned, or the exception thrown
  calls,          \* external calls made so far, in order
  lastReply,      \* what the latest chat call settled with
  call,           \* a direct call of an exported parser
  ret,            \* what that call returned
  other,          \* a second smartSort invocation: its locals while it is suspended
  block,          \* the OmnifocusBlockState of a block
  omni,           \* the OmniFocus document behind the block
  accepts,        \* the onAccept handlers in flight: a bag of their states
  fetches,        \* fetchTasks calls of doFetch in flight
  sorts,          \* smartSort runs of onSmartSortClick in flight
  completes,      \* tasks whose completeTask call is in flight
  adds            \* createTask calls of onAddClick in flight

runVars == <<settings, store, pc, projects, rawTasks, chunkAt, enrich, tasks,
             phase1Content, retryContent, assignments, items, noFitTasks, outcome, calls,
             lastReply>>
\* what no step of the running invocation touches
blockVars == <<block, omni, accepts, fetches, sorts, completes, adds>>
sideVars == <<other, blockVars>>
fnVars == <<call, ret, sideVars>>
vars == <<runVars, fnVars>>

NoCall == [fn |-> "none"]
NoContent == Undefined
Rejected == [t |-> "rejected"]

Call(op, arg) == [op |-> op, arg |-> arg]

effectiveModel == getLLMModel(settings)
maxBatch == settings.smartSortMaxTasksPerBatch

\* the lines of tasksList in the Phase 1 prompt
tasksListOf(ts) == [i \in 1..Len(ts) |-> [index |-> i, name |-> ts[i].name, note |-> ts[i].note]]

Phase1Call(ts, retry) ==
  Call("simpleChat", [phase |-> 1, retry |-> retry, model |-> effectiveModel,
                      tasksList |-> tasksListOf(ts)])

Phase2Call(nf) ==
  Call("simpleChat", [phase |-> 2, retry |-> FALSE, model |-> effectiveModel,
                      tasksList |-> tasksListOf(nf)])

\* ------------------------------------------------------------------------
\* smartSort, one action per suspension point
\* ------------------------------------------------------------------------
NotConfiguredMsg == "LLM is not configured. Set API key or base URL in plugin settings."
NoModelMsg == "No model selected for Smart Sort. Set Default model or Smart sort override in plugin settings."
NoTasksMsg == "No inbox tasks to sort."
Phase1ParseMsg == "Parse failed; raw Phase 1 output: "
Phase2ParseMsg == "Parse failed; raw Phase 2 output: "
Phase2FailedMsg == "Phase 2 failed: "

\* a chunk that takes every remaining item
chunkOf_Rest(i, n) == {k \in 1..n : k >= i}

\* indexes of the chunk items.slice(i, i + concurrency), 1-based
chunkOf(i, n) == {k \in 1..n : k >= i /\ k < i + CONCURRENCY}

hasUrl(task) == extractUrlFromTask(task.name, task.note).t # "null"

\* chunk.map(fn): every callback of the chunk runs to its first await
launch(en, ts, i) ==
  [k \in 1..Len(ts) |->
     IF k \in chunkOf(i, Len(ts))
       THEN [st |-> IF hasUrl(ts[k]) THEN "fetching" ELSE "done", task |-> ts[k]]
       ELSE en[k]]

RECURSIVE launchCalls(_, _, _)
launchCalls(ts, i, k) ==
  IF k > Len(ts) \/ k >= i + CONCURRENCY THEN <<>>
  ELSE (IF hasUrl(ts[k]) THEN <<Call("fetchMetadata", [id |-> ts[k].id])>> ELSE <<>>)
         \o launchCalls(ts, i, k + 1)

\* smartSort going on to Phase 1 whatever the batch holds
afterSlice_NoEmptyCheck(ts, total, log) ==
     /\ tasks' = ts
     /\ outcome' = outcome
     /\ pc' = "phase1"
     /\ calls' = Append(log, Phase1Call(ts, FALSE))

\* smartSort from the return of preprocessTasks to its next suspension
afterSlice(ts, total, log) ==
     /\ tasks' = ts
     /\ IF Len(ts) = 0
          THEN /\ outcome' = Result(<<>>, 0, total, Error(NoTasksMsg, <<>>))
               /\ pc' = "done"
               /\ calls' = log
          ELSE /\ outcome' = outcome
               /\ pc' = "phase1"
               /\ calls' = Append(log, Phase1Call(ts, FALSE))

\* smartSort going on with the tasks as the store holds them by now
afterPreprocess_StoreTasks(enriched, total, log) ==
  afterSlice(Slice(store.inbox, maxBatch), total, log)

\* smartSort going on with every enriched task
afterPreprocess_WholeInbox(enriched, total, log) == afterSlice(enriched, total, log)

afterPreprocess(enriched, total, log) == afterSlice(Slice(enriched, maxBatch), total, log)

\* smartSort without the check for missing assignments
afterBuild_IgnoresFailure(a, content1, built) ==
     /\ assignments' = a
     /\ items' = built.items
     /\ noFitTasks' = built.noFitTasks
     /\ IF Len(built.noFitTasks) > 0
          THEN /\ outcome' = outcome
               /\ pc' = "phase2"
               /\ calls' = Append(calls, Phase2Call(built.noFitTasks))
          ELSE /\ outcome' = Result(built.items, Len(tasks), Len(rawTasks), NoError)
               /\ pc' = "done"
               /\ calls' = calls

\* smartSort running Phase 2 whenever Phase 1 parsed
afterBuild_AlwaysPhase2(a, content1, built) ==
     /\ assignments' = a
     /\ items' = built.items
     /\ noFitTasks' = built.noFitTasks
     /\ IF a.t = "null"
          THEN /\ outcome' = Result(<<>>, Len(tasks), Len(rawTasks),
                                    Error(Phase1ParseMsg, rawOrEmpty(content1)))
               /\ pc' = "done"
               /\ calls' = calls
          ELSE /\ outcome' = outcome
               /\ pc' = "phase2"
               /\ calls' = Append(calls, Phase2Call(built.noFitTasks))

\* smartSort from the return of runPhase1 to its next suspension
afterBuild(a, content1, built) ==
     /\ assignments' = a
     /\ items' = built.items
     /\ noFitTasks' = built.noFitTasks
     /\ IF a.t = "null"
          THEN /\ outcome' = Result(<<>>, Len(tasks), Len(rawTasks),
                                    Error(Phase1ParseMsg, rawOrEmpty(content1)))
               /\ pc' = "done"
               /\ calls' = calls
        ELSE IF Len(built.noFitTasks) > 0
          THEN /\ outcome' = outcome
               /\ pc' = "phase2"
               /\ calls' = Append(calls, Phase2Call(built.noFitTasks))
        ELSE /\ outcome' = Result(built.items, Len(tasks), Len(rawTasks), NoError)
             /\ pc' = "done"
             /\ calls' = calls

afterPhase1(a, content1) == afterBuild(a, content1, buildPhase1Items(a, tasks, projects))

Start ==
  /\ pc = "start"
  /\ IF ~isLLMConfigured(getConfig(settings))
       THEN outcome' = Thrown("config", NotConfiguredMsg) /\ pc' = "done" /\ calls' = calls
     ELSE IF effectiveModel = <<>>
       THEN outcome' = Thrown("config", NoModelMsg) /\ pc' = "done" /\ calls' = calls
     ELSE /\ outcome' = outcome
          /\ pc' = "fetching"
          /\ calls' = calls \o <<Call("fetchProjectsWithNotes", [kind |-> "all"]),
                                 Call("fetchTasks", [kind |-> "inbox"])>>
  /\ UNCHANGED <<settings, store, projects, rawTasks, chunkAt, enrich, tasks,
                 phase1Content, retryContent, assignments, items, noFitTasks, lastReply, fnVars>>

FetchResolve ==
  /\ pc = "fetching"
  /\ projects' = store.projects
  /\ rawTasks' = store.inbox
  /\ IF store.inbox = <<>>
       THEN /\ afterPreprocess(<<>>, 0, calls)
            /\ UNCHANGED <<chunkAt, enrich>>
       ELSE /\ chunkAt' = 1
            /\ enrich' = launch([k \in 1..Len(store.inbox) |-> [st |-> "idle", task |-> store.inbox[k]]],
                                store.inbox, 1)
            /\ calls' = calls \o launchCalls(store.inbox, 1, 1)
            /\ pc' = "preprocess"
            /\ UNCHANGED <<tasks, outcome>>
  /\ UNCHANGED <<settings, store, phase1Content, retryContent, assignments, items,
                 noFitTasks, lastReply, fnVars>>

FetchReject ==
  /\ pc = "fetching"
  /\ outcome' = Thrown("store", "fetch failed")
  /\ pc' = "done"
  /\ UNCHANGED <<settings, store, projects, rawTasks, chunkAt, enrich, tasks, phase1Content,
                 retryContent, assignments, items, noFitTasks, calls, lastReply, fnVars>>

\* fetchMetadata resolves: null passes the task through, metadata starts updateTask
MetaResolve(k) ==
  /\ k \in DOMAIN enrich
  /\ enrich[k].st = "fetching"
  /\ \/ /\ enrich' = [enrich EXCEPT ![k].st = "done"]
        /\ calls' = calls
     \/ \E meta \in Metas :
          /\ enrich' = [enrich EXCEPT ![k] = [st |-> "updating", task |-> renamed(enrich[k].task, meta)]]
          /\ calls' = Append(calls, Call("updateTask",
                               [id |-> enrich[k].task.id, name |-> meta.title,
                                note |-> newNoteOf(enrich[k].task, meta)]))
  /\ UNCHANGED <<settings, store, pc, projects, rawTasks, chunkAt, tasks, phase1Content,
                 retryContent, assignments, items, noFitTasks, outcome, lastReply, fnVars>>

\* fetchMetadata rejects: Promise.all of the chunk rejects and smartSort with it
MetaReject(k) ==
  /\ k \in DOMAIN enrich
  /\ enrich[k].st = "fetching"
  /\ enrich' = [enrich EXCEPT ![k].st = "failed"]
  /\ IF pc = "preprocess"
       THEN outcome' = Thrown("enrichment", "metadata fetch failed") /\ pc' = "done"
       ELSE UNCHANGED <<outcome, pc>>
  /\ UNCHANGED <<settings, store, projects, rawTasks, chunkAt, tasks, phase1Content,
                 retryContent, assignments, items, noFitTasks, calls, lastReply, fnVars>>

updateStore(st, task) ==
  [st EXCEPT !.inbox = [i \in 1..Len(st.inbox) |->
                          IF st.inbox[i].id = task.id THEN task ELSE st.inbox[i]]]

UpdateResolve(k) ==
  /\ k \in DOMAIN enrich
  /\ enrich[k].st = "updating"
  /\ store' = updateStore(store, enrich[k].task)
  /\ enrich' = [enrich EXCEPT ![k].st = "done"]
  /\ UNCHANGED <<settings, pc, projects, rawTasks, chunkAt, tasks, phase1Content,
                 retryContent, assignments, items, noFitTasks, outcome, calls, lastReply, fnVars>>

\* updateTask rejects: caught and logged, the renamed task is returned all the same
UpdateReject(k) ==
  /\ k \in DOMAIN enrich
  /\ enrich[k].st = "updating"
  /\ enrich' = [enrich EXCEPT ![k].st = "done"]
  /\ UNCHANGED <<settings, store, pc, projects, rawTasks, chunkAt, tasks, phase1Content,
                 retryContent, assignments, items, noFitTasks, outcome, calls, lastReply, fnVars>>

\* results collected last first
ChunkDone_Reversed ==
  /\ pc = "preprocess"
  /\ \A k \in chunkOf(chunkAt, Len(rawTasks)) : enrich[k].st = "done"
  /\ IF chunkAt + CONCURRENCY <= Len(rawTasks)
       THEN /\ chunkAt' = chunkAt + CONCURRENCY
            /\ enrich' = launch(enrich, rawTasks, chunkAt + CONCURRENCY)
            /\ calls' = calls \o launchCalls(rawTasks, chunkAt + CONCURRENCY, chunkAt + CONCURRENCY)
            /\ UNCHANGED <<pc, tasks, outcome>>
       ELSE /\ afterPreprocess([k \in 1..Len(rawTasks) |-> enrich[Len(rawTasks) + 1 - k].task],
                               Len(rawTasks), calls)
            /\ UNCHANGED <<chunkAt, enrich>>
  /\ UNCHANGED <<settings, store, projects, rawTasks, phase1Content, retryContent,
                 assignments, items, noFitTasks, lastReply, fnVars>>

\* Promise.all of the chunk resolves: next chunk, or the rest of smartSort
ChunkDone ==
  /\ pc = "preprocess"
  /\ \A k \in chunkOf(chunkAt, Len(rawTasks)) : enrich[k].st = "done"
  /\ IF chunkAt + CONCURRENCY <= Len(rawTasks)
       THEN /\ chunkAt' = chunkAt + CONCURRENCY
            /\ enrich' = launch(enrich, rawTasks, chunkAt + CONCURRENCY)
            /\ calls' = calls \o launchCalls(rawTasks, chunkAt + CONCURRENCY, chunkAt + CONCURRENCY)
            /\ UNCHANGED <<pc, tasks, outcome>>
       ELSE /\ afterPreprocess([k \in 1..Len(rawTasks) |-> enrich[k].task], Len(rawTasks), calls)
            /\ UNCHANGED <<chunkAt, enrich>>
  /\ UNCHANGED <<settings, store, projects, rawTasks, phase1Content, retryContent,
                 assignments, items, noFitTasks, lastReply, fnVars>>

\* runPhase1 retrying whatever the first response was
firstParsed_AlwaysRetry(content, a) ==
  /\ phase1Content' = Str(content)
  /\ assignments' = a
  /\ calls' = Append(calls, Phase1Call(tasks, TRUE))
  /\ pc' = "phase1retry"
  /\ UNCHANGED <<items, noFitTasks, outcome>>

\* runPhase1 after the first response was parsed into a
firstParsed(content, a) ==
  IF a.t = "null"
    THEN /\ phase1Content' = Str(content)
         /\ assignments' = a
         /\ calls' = Append(calls, Phase1Call(tasks, TRUE))
         /\ pc' = "phase1retry"
         /\ UNCHANGED <<items, noFitTasks, outcome>>
    ELSE /\ phase1Content' = NoContent
         /\ afterPhase1(a, content)

\* the first Phase 1 chat call resolves
Phase1Resolve ==
  /\ pc = "phase1"
  /\ \E content \in Phase1Responses(Len(tasks), Len(projects)) :
       /\ lastReply' = Str(content)
       /\ firstParsed(content, parsePhase1Response(content, Len(tasks), Len(projects)))
  /\ UNCHANGED <<settings, store, projects, rawTasks, chunkAt, enrich, tasks, retryContent,
                 fnVars>>

\* a Phase 1 chat call rejects: nothing catches it
Phase1Reject ==
  /\ pc \in {"phase1", "phase1retry"}
  /\ outcome' = Thrown("chat", "request failed")
  /\ pc' = "done"
  /\ lastReply' = Rejected
  /\ UNCHANGED <<settings, store, projects, rawTasks, chunkAt, enrich, tasks, phase1Content,
                 retryContent, assignments, items, noFitTasks, calls, fnVars>>

\* runPhase1 after the retry response was parsed into a: it returns
\* { assignments, phase1Content }
retryParsed(content, a) ==
  /\ retryContent' = IF a.t = "null" THEN Str(content) ELSE NoContent
  /\ phase1Content' = IF a.t = "null" THEN phase1Content ELSE NoContent
  /\ afterPhase1(a, phase1Content.s)

\* the retry call resolves
Phase1RetryResolve ==
  /\ pc = "phase1retry"
  /\ \E content \in Phase1Responses(Len(tasks), Len(projects)) :
       /\ lastReply' = Str(content)
       /\ retryParsed(content, parsePhase1Response(content, Len(tasks), Len(projects)))
  /\ UNCHANGED <<settings, store, projects, rawTasks, chunkAt, enrich, tasks, fnVars>>

\* runPhase2 after its response was parsed into suggestions
secondParsed(content, suggestions) ==
  IF suggestions.t = "null"
    THEN /\ outcome' = Result(items, Len(tasks), Len(rawTasks),
                              Error(Phase2ParseMsg, rawOrEmpty(content)))
         /\ items' = items
    ELSE /\ items' = matchSuggestions(suggestions.e, noFitTasks, 1, items)
         /\ outcome' = Result(items', Len(tasks), Len(rawTasks), NoError)

Phase2Resolve ==
  /\ pc = "phase2"
  /\ \E content \in Phase2Responses(noFitTasks) :
       /\ lastReply' = Str(content)
       /\ secondParsed(content, parsePhase2Response(content))
  /\ pc' = "done"
  /\ UNCHANGED <<settings, store, projects, rawTasks, chunkAt, enrich, tasks, phase1Content,
                 retryContent, assignments, noFitTasks, calls, fnVars>>

\* a catch block that returns no items
Phase2Reject_NoItems ==
  /\ pc = "phase2"
  /\ outcome' = Result(<<>>, Len(tasks), Len(rawTasks), Error(Phase2FailedMsg, <<"request failed">>))
  /\ pc' = "done"
  /\ lastReply' = Rejected
  /\ UNCHANGED <<settings, store, projects, rawTasks, chunkAt, enrich, tasks, phase1Content,
                 retryContent, assignments, items, noFitTasks, calls, fnVars>>

Phase2Reject ==
  /\ pc = "phase2"
  /\ outcome' = Result(items, Len(tasks), Len(rawTasks), Error(Phase2FailedMsg, <<"request failed">>))
  /\ pc' = "done"
  /\ lastReply' = Rejected
  /\ UNCHANGED <<settings, store, projects, rawTasks, chunkAt, enrich, tasks, phase1Content,
                 retryContent, assignments, items, noFitTasks, calls, fnVars>>

RunIdle ==
  /\ pc = "start"
  /\ projects = <<>>
  /\ rawTasks = <<>>
  /\ chunkAt = 0
  /\ enrich = <<>>
  /\ tasks = <<>>
  /\ phase1Content = NoContent
  /\ retryContent = NoContent
  /\ assignments = Null
  /\ items = <<>>
  /\ noFitTasks = <<>>
  /\ outcome = Pending
  /\ calls = <<>>
  /\ lastReply = NoContent

\* ---- two invocations of smartSort ----
NoRun == [pc |-> "none"]

\* the locals of an invocation
Locals(p, pr, rt, ca, en, ts, c1, c2, a, it, nf, o, cs, lr) ==
  [pc |-> p, projects |-> pr, rawTasks |-> rt, chunkAt |-> ca, enrich |-> en, tasks |-> ts,
   phase1Content |-> c1, retryContent |-> c2, assignments |-> a, items |-> it,
   noFitTasks |-> nf, outcome |-> o, calls |-> cs, lastReply |-> lr]

IdleRun == Locals("start", <<>>, <<>>, 0, <<>>, <<>>, NoContent, NoContent, Null, <<>>, <<>>,
                  Pending, <<>>, NoContent)

\* the event loop leaves the running invocation at its suspension point and
\* resumes the other one: each keeps its own locals, settings and store are shared
Switch ==
  /\ other # NoRun
  /\ other' = Locals(pc, projects, rawTasks, chunkAt, enrich, tasks, phase1Content,
                     retryContent, assignments, items, noFitTasks, outcome, calls, lastReply)
  /\ pc' = other.pc
  /\ projects' = other.projects
  /\ rawTasks' = other.rawTasks
  /\ chunkAt' = other.chunkAt
  /\ enrich' = other.enrich
  /\ tasks' = other.tasks
  /\ phase1Content' = other.phase1Content
  /\ retryContent' = other.retryContent
  /\ assignments' = other.assignments
  /\ items' = other.items
  /\ noFitTasks' = other.noFitTasks
  /\ outcome' = other.outcome
  /\ calls' = other.calls
  /\ lastReply' = other.lastReply
  /\ UNCHANGED <<settings, store, call, ret, blockVars>>

\* ------------------------------------------------------------------------
\* The OmniFocus block: its state, the task store behind it, its handlers
\* ------------------------------------------------------------------------
\* how many calls of the block may be awaiting their result at once, and how
\* many of them may be onAccept handlers
MaxPending == 2
MaxAccepts == 1

\* String.prototype.includes
Includes(s, q) == \E i \in 0..(Len(s) - Len(q)) : SubSeq(s, i + 1, i + Len(q)) = q

Resolved(name) == [ok |-> TRUE, name |-> name]
Unresolved == [ok |-> FALSE]

\* resolveName: the exact match if it is truthy, else the single substring match,
\* else it throws; all case-insensitive
resolveName(query, candidates) ==
  LET lowerQuery == ToLowerCase(query)
      exact == {i \in 1..Len(candidates) : ToLowerCase(candidates[i]) = lowerQuery}
      matches == {i \in 1..Len(candidates) : Includes(ToLowerCase(candidates[i]), lowerQuery)}
  IN IF exact # {} /\ candidates[SetMin(exact)] # <<>> THEN Resolved(candidates[SetMin(exact)])
     ELSE IF Cardinality(matches) = 1 THEN Resolved(candidates[SetMin(matches)])
     ELSE Unresolved

\* ---- the OmniFocus document ----
BlockTasks == SubSeq(TaskPool, 1, 3)
BlockTaskIds == {BlockTasks[i].id : i \in 1..Len(BlockTasks)}

\* projects by name; per task where it is and, once moved, the project it is in
Omni(ps) ==
  [projects |-> ps,
   place |-> [t \in BlockTaskIds |-> IF t = BlockTasks[3].id THEN "absent" ELSE "inbox"],
   project |-> [t \in BlockTaskIds |-> 0]]

\* fetchTasks of the inbox, completed tasks left out
inboxOf(o) == SelectSeq(BlockTasks, LAMBDA t : o.place[t.id] = "inbox")

\* SCRIPT_MOVE_TASK finds the task and the first project of that name
movable(o, taskId, name) ==
  /\ o.place[taskId] # "absent"
  /\ \E i \in 1..Len(o.projects) : o.projects[i] = name

moved(o, taskId, name) ==
  [o EXCEPT !.place[taskId] = IF @ = "completed" THEN @ ELSE "project",
            !.project[taskId] = SetMin({i \in 1..Len(o.projects) : o.projects[i] = name})]

\* ---- OmnifocusBlockState (label and config never change) ----
List(e) == [t |-> "list", e |-> e]
Message(m) == [t |-> "message", m |-> m]

BlockState ==
  [status |-> "loading", syncing |-> FALSE, smartSorting |-> FALSE, tasks |-> Undefined,
   error |-> Undefined, smartSortResults |-> Null, smartSortError |-> Undefined]

\* s.smartSortResults ?? []
resultsOf(b) == IF b.smartSortResults = Null THEN <<>> ELSE b.smartSortResults.e

\* buildBlockTemplate: Add task, Sync and Smart sort are disabled together
buttonsDisabled(b) == b.syncing \/ b.smartSorting

\* renderTaskListTemplate: the error takes the place of the list
listShown(b) == IF b.error # Undefined THEN b.error
                ELSE IF b.tasks = Undefined THEN List(<<>>) ELSE b.tasks

\* what a smartSort run hands to the block
Because == <<"r">>
SortOutcomes ==
  { [items |-> << Item(BlockTasks[1], <<"a", "b">>, "existing", Because),
                  Item(BlockTasks[1], <<"a">>, "project", Because),
                  Item(BlockTasks[2], <<"B">>, "area", Because) >>,
     error |-> Undefined],
    [items |-> <<>>, error |-> Message("No tasks to sort")] }

\* ---- doFetch ----
\* the synchronous part of doFetch
doFetch(b) == [b EXCEPT !.status = "loading", !.syncing = TRUE, !.smartSorting = FALSE]

\* the handlers in flight when handler a has finished, and when it has gone on as b
Without(a) == accepts (-) SetToBag({a})
Becomes(a, b) == Without(a) (+) SetToBag({b})

BlockIdle ==
  /\ block = BlockState
  /\ omni = Omni(<<>>)
  /\ accepts = EmptyBag
  /\ fetches = 0
  /\ sorts = 0
  /\ completes = {}
  /\ adds = 0

SideIdle == other = NoRun /\ BlockIdle

notBlock == <<runVars, call, ret, other>>

\* the calls the block is awaiting
pending == fetches + sorts + BagCardinality(accepts) + Cardinality(completes) + adds

\* onSyncClick, and the first doFetch of the block
OnSyncClick ==
  /\ ~buttonsDisabled(block)
  /\ pending < MaxPending
  /\ block' = doFetch(block)
  /\ fetches' = fetches + 1
  /\ UNCHANGED <<omni, accepts, sorts, completes, adds, notBlock>>

\* fetchTasks resolves
DoFetchResolve ==
  /\ fetches > 0
  /\ block' = [block EXCEPT !.status = "ready", !.syncing = FALSE, !.smartSorting = FALSE,
                            !.tasks = List(inboxOf(omni))]
  /\ fetches' = fetches - 1
  /\ UNCHANGED <<omni, accepts, sorts, completes, adds, notBlock>>

\* fetchTasks rejects
DoFetchReject ==
  /\ fetches > 0
  /\ block' = [block EXCEPT !.status = "ready", !.syncing = FALSE, !.smartSorting = FALSE,
                            !.error = Message("Failed to fetch OmniFocus tasks")]
  /\ fetches' = fetches - 1
  /\ UNCHANGED <<omni, accepts, sorts, completes, adds, notBlock>>

\* ---- onSmartSortClick ----
OnSmartSortClick ==
  /\ ~buttonsDisabled(block)
  /\ pending < MaxPending
  /\ block' = [block EXCEPT !.smartSorting = TRUE, !.smartSortError = Undefined]
  /\ sorts' = sorts + 1
  /\ UNCHANGED <<omni, accepts, fetches, completes, adds, notBlock>>

\* smartSort resolves with a result
SmartSortResolve ==
  /\ sorts > 0
  /\ \E result \in SortOutcomes :
       block' = [block EXCEPT !.smartSorting = FALSE,
                              !.smartSortResults = List(result.items),
                              !.smartSortError = result.error]
  /\ sorts' = sorts - 1
  /\ UNCHANGED <<omni, accepts, fetches, completes, adds, notBlock>>

\* smartSort throws
SmartSortReject ==
  /\ sorts > 0
  /\ block' = [block EXCEPT !.smartSorting = FALSE, !.smartSortResults = Null,
                            !.smartSortError = Message("Smart sort not configured")]
  /\ sorts' = sorts - 1
  /\ UNCHANGED <<omni, accepts, fetches, completes, adds, notBlock>>

\* ---- onAccept ----
Entry(op, st) == [op |-> op, st |-> st]
settle(log, st) == [log EXCEPT ![Len(log)].st = st]

\* the whole list dropped
removeTask_All(b, taskId) == [b EXCEPT !.smartSortResults = Null]

\* .filter((x) => x.taskId !== item.taskId), then null for an empty list
removeTask(b, taskId) ==
  LET kept == SelectSeq(resultsOf(b), LAMBDA x : x.taskId # taskId)
  IN [b EXCEPT !.smartSortResults = IF Len(kept) = 0 THEN Null ELSE List(kept)]

\* the Accept button of the k-th suggestion: moveTaskToProject is called and
\* asks for the project names
OnAccept(k) ==
  /\ k \in 1..Len(resultsOf(block))
  /\ pending < MaxPending
  /\ BagCardinality(accepts) < MaxAccepts
  /\ accepts' = accepts (+) SetToBag({
                   [pc |-> "names", item |-> resultsOf(block)[k], attempt |-> 1,
                    target |-> <<>>, log |-> <<Entry("moveTaskToProject", "pending")>>]})
  /\ UNCHANGED <<block, omni, fetches, sorts, completes, adds, notBlock>>

\* the outer catch: Notice('Failed to move task: ...'), the list is left alone
acceptFailed(s, log) ==
  /\ accepts' = Without(s)
  /\ UNCHANGED <<block, fetches>>

\* moveTaskToProject threw: the inner catch of a 'project' or 'area' suggestion
\* asks for the project names, anything else reaches the outer catch
moveFailed(s) ==
  LET log == settle(s.log, "failed")
  IN IF s.item.type # "existing" /\ s.attempt = 1
       THEN /\ accepts' = Becomes(s, [s EXCEPT !.pc = "listing",
                                                !.log = Append(log, Entry("fetchProjectNames", "pending"))])
            /\ UNCHANGED <<block, fetches>>
       ELSE acceptFailed(s, log)

\* the second moveTaskToProject of the inner catch
secondMove(s, log) ==
  /\ accepts' = Becomes(s, [s EXCEPT !.pc = "names", !.attempt = 2,
                                       !.log = Append(log, Entry("moveTaskToProject", "pending"))])
  /\ UNCHANGED <<block, fetches>>

\* moveTaskToProject: fetchProjectNames resolves, resolveName picks the project
MoveNamesResolve(s) ==
  /\ s \in BagToSet(accepts)
  /\ s.pc = "names"
  /\ LET r == resolveName(s.item.projectName, omni.projects)
     IN IF r.ok
          THEN /\ accepts' = Becomes(s, [s EXCEPT !.pc = "script", !.target = r.name])
               /\ UNCHANGED <<block, fetches>>
          ELSE moveFailed(s)
  /\ UNCHANGED <<omni, sorts, completes, adds, notBlock>>

MoveNamesReject(s) ==
  /\ s \in BagToSet(accepts)
  /\ s.pc = "names"
  /\ moveFailed(s)
  /\ UNCHANGED <<omni, sorts, completes, adds, notBlock>>

\* SCRIPT_MOVE_TASK ran: Notice('Task moved to project.'), the task's suggestions
\* leave the list, triggerFetch
MoveScriptResolve(s) ==
  /\ s \in BagToSet(accepts)
  /\ s.pc = "script"
  /\ movable(omni, s.item.taskId, s.target)
  /\ omni' = moved(omni, s.item.taskId, s.target)
  /\ block' = doFetch(removeTask(block, s.item.taskId))
  /\ fetches' = fetches + 1
  /\ accepts' = Without(s)
  /\ UNCHANGED <<sorts, completes, adds, notBlock>>

\* osascript fails
MoveScriptReject(s) ==
  /\ s \in BagToSet(accepts)
  /\ s.pc = "script"
  /\ moveFailed(s)
  /\ UNCHANGED <<omni, sorts, completes, adds, notBlock>>

\* the inner catch creating the project whatever names there are
ListResolve_AlwaysCreate(s) ==
  /\ s \in BagToSet(accepts)
  /\ s.pc = "listing"
  /\ accepts' = Becomes(s, [s EXCEPT !.pc = "creating",
                                      !.log = Append(settle(s.log, "ok"),
                                                     Entry("createProject", "pending"))])
  /\ UNCHANGED <<block, fetches>>
  /\ UNCHANGED <<omni, sorts, completes, adds, notBlock>>

\* the inner catch: fetchProjectNames resolves; createProject unless a name
\* equals the destination case-insensitively
ListResolve(s) ==
  /\ s \in BagToSet(accepts)
  /\ s.pc = "listing"
  /\ LET log == settle(s.log, "ok")
     IN IF \E i \in 1..Len(omni.projects) :
               ToLowerCase(omni.projects[i]) = ToLowerCase(s.item.projectName)
          THEN secondMove(s, log)
          ELSE /\ accepts' = Becomes(s, [s EXCEPT !.pc = "creating",
                                                   !.log = Append(log, Entry("createProject", "pending"))])
               /\ UNCHANGED <<block, fetches>>
  /\ UNCHANGED <<omni, sorts, completes, adds, notBlock>>

ListReject(s) ==
  /\ s \in BagToSet(accepts)
  /\ s.pc = "listing"
  /\ acceptFailed(s, settle(s.log, "failed"))
  /\ UNCHANGED <<omni, sorts, completes, adds, notBlock>>

\* SCRIPT_CREATE_PROJECT ran: a new project of that name, then the second move
CreateResolve(s) ==
  /\ s \in BagToSet(accepts)
  /\ s.pc = "creating"
  /\ omni' = [omni EXCEPT !.projects = Append(@, s.item.projectName)]
  /\ secondMove(s, settle(s.log, "ok"))
  /\ UNCHANGED <<sorts, completes, adds, notBlock>>

CreateReject(s) ==
  /\ s \in BagToSet(accepts)
  /\ s.pc = "creating"
  /\ acceptFailed(s, settle(s.log, "failed"))
  /\ UNCHANGED <<omni, sorts, completes, adds, notBlock>>

\* ---- onDecline ----
OnDecline(k) ==
  /\ k \in 1..Len(resultsOf(block))
  /\ block' = removeTask(block, resultsOf(block)[k].taskId)
  /\ UNCHANGED <<omni, accepts, fetches, sorts, completes, adds, notBlock>>

\* ---- onCheckboxChange ----
\* the checkbox of a listed task: completeTask is called
OnCheckboxChange(t) ==
  /\ block.error = Undefined
  /\ block.tasks # Undefined
  /\ \E i \in 1..Len(block.tasks.e) : block.tasks.e[i].id = t
  /\ t \notin completes
  /\ pending < MaxPending
  /\ completes' = completes \cup {t}
  /\ UNCHANGED <<block, omni, accepts, fetches, sorts, adds, notBlock>>

\* completeTask resolves: Notice('Task completed.'), triggerFetch
CompleteResolve(t) ==
  /\ t \in completes
  /\ omni.place[t] # "absent"
  /\ omni' = [omni EXCEPT !.place[t] = "completed"]
  /\ completes' = completes \ {t}
  /\ block' = doFetch(block)
  /\ fetches' = fetches + 1
  /\ UNCHANGED <<accepts, sorts, adds, notBlock>>

CompleteReject(t) ==
  /\ t \in completes
  /\ completes' = completes \ {t}
  /\ UNCHANGED <<block, omni, accepts, fetches, sorts, adds, notBlock>>

\* ---- onAddClick ----
\* the modal is submitted: createTask is called
OnAddClick ==
  /\ ~buttonsDisabled(block)
  /\ adds = 0
  /\ pending < MaxPending
  /\ \E t \in BlockTaskIds : omni.place[t] = "absent"
  /\ adds' = 1
  /\ UNCHANGED <<block, omni, accepts, fetches, sorts, completes, notBlock>>

\* createTask resolves: a new inbox task, Notice, triggerFetch
CreateTaskResolve ==
  /\ adds = 1
  /\ \E t \in BlockTaskIds :
       /\ omni.place[t] = "absent"
       /\ omni' = [omni EXCEPT !.place[t] = "inbox"]
  /\ adds' = 0
  /\ block' = doFetch(block)
  /\ fetches' = fetches + 1
  /\ UNCHANGED <<accepts, sorts, completes, notBlock>>

CreateTaskReject ==
  /\ adds = 1
  /\ adds' = 0
  /\ UNCHANGED <<block, omni, accepts, fetches, sorts, completes, notBlock>>

\* ---- a block over an inbox ----
\* "a" is part of one name, "b" of two, "ab" is a name
StoreProjects == <<<<"a", "b">>, <<"b", "c">>>>

InitBlock ==
  /\ settings \in {Settings("openrouter", <<"k">>, <<>>, <<"m">>, <<>>, 1)}
  /\ store = [inbox |-> <<>>, projects |-> <<>>]
  /\ RunIdle
  /\ other = NoRun
  /\ call = NoCall
  /\ ret = NoCall
  /\ block = BlockState
  /\ omni = Omni(StoreProjects)
  /\ accepts = EmptyBag
  /\ fetches = 0
  /\ sorts = 0
  /\ completes = {}
  /\ adds = 0

Accepting ==
  \/ \E k \in 1..3 : OnAccept(k)
  \/ \E s \in BagToSet(accepts) :
    \/ MoveNamesResolve(s) \/ MoveNamesReject(s)
    \/ MoveScriptResolve(s) \/ MoveScriptReject(s)
    \/ ListResolve(s) \/ ListReject(s)
    \/ CreateResolve(s) \/ CreateReject(s)

Completing ==
  \E t \in BlockTaskIds : OnCheckboxChange(t) \/ CompleteResolve(t) \/ CompleteReject(t)

\* the buttons of the block and the checkboxes of its list
NextBlock ==
  \/ OnSyncClick
  \/ DoFetchResolve
  \/ DoFetchReject
  \/ OnSmartSortClick
  \/ SmartSortResolve
  \/ SmartSortReject
  \/ Completing
  \/ OnAddClick
  \/ CreateTaskResolve
  \/ CreateTaskReject

SpecBlock == InitBlock /\ [][NextBlock]_vars

\* Smart sort and the Accept and Decline buttons of its suggestions, with a
\* task list that can be fetched
NextAccept ==
  \/ OnSmartSortClick
  \/ SmartSortResolve
  \/ SmartSortReject
  \/ Accepting
  \/ \E k \in 1..3 : OnDecline(k)
  \/ DoFetchResolve

SpecAccept == InitBlock /\ [][NextAccept]_vars

\* ---- an inbox whose tasks all carry a URL ----
MaxUrlTasks == 4

UrlTaskIds == <<"u1", "u2", "u3", "u4", "u5", "u6">>

UrlInbox ==
  [i \in 1..MaxUrlTasks |-> Task(UrlTaskIds[i], <<URL>>, IF i % 2 = 0 THEN <<"n">> ELSE <<>>)]

\* ---- direct calls of the exported parsers ----
MaxElements == 2

\* elements a response array can hold
Elements ==
  { Num(1), Num(3), NormNum(5, 10),
    Phase1Object(Num(0)),
    Obj(<<[k |-> KeyProject, v |-> NormNum(15, 10)]>>),
    Obj(<<[k |-> KeyProject, v |-> Str(<<"1">>)]>>),
    Null,
    Suggestion(<<"a">>, <<"N">>, AreaText),
    Obj(<<[k |-> KeyTask, v |-> Str(<<"a">>)], [k |-> KeySuggestion, v |-> Num(1)]>>) }

Arrays == UNION {[1..n -> Elements] : n \in 0..MaxElements}

\* the text of an array as is, fenced, with a trailing comma, and cut off
Writings(e) ==
  { JsonText(Arr(e)),
    FenceJson \o <<NL>> \o JsonText(Arr(e)) \o <<NL>> \o Fence,
    <<"[">> \o Join([i \in 1..Len(e) |-> JsonText(e[i])], <<",">>) \o <<",", SP, "]">>,
    <<SP, "[">> \o Join([i \in 1..Len(e) |-> JsonText(e[i])], <<",">>) \o <<",">> }

ResponseTexts ==
  UNION {Writings(e) : e \in Arrays}
    \cup {<<"n", "o">>, <<>>, JsonText(Suggestion(<<"a">>, <<"N">>, AreaText)), <<"1">>}

ParseCalls ==
  {[fn |-> "parsePhase1Response", content |-> c, tasksLen |-> n, projectsLen |-> m] :
     c \in ResponseTexts, n \in 0..MaxElements, m \in 0..MaxProjects}
    \cup {[fn |-> "parsePhase2Response", content |-> c, tasksLen |-> 0, projectsLen |-> 0] :
            c \in ResponseTexts}

ApplyParsePhase1 ==
  /\ call.fn = "parsePhase1Response"
  /\ ret = NoCall
  /\ ret' = parsePhase1Response(call.content, call.tasksLen, call.projectsLen)
  /\ UNCHANGED <<call, runVars, sideVars>>

ApplyParsePhase2 ==
  /\ call.fn = "parsePhase2Response"
  /\ ret = NoCall
  /\ ret' = parsePhase2Response(call.content)
  /\ UNCHANGED <<call, runVars, sideVars>>

\* ---- direct calls of the exported repair functions ----
MaxText == 4

RepairAlphabet == {"[", "]", "}", ",", SP, "1", QUOTE}

\* every text of at most MaxText characters, and the parser response texts
RepairTexts ==
  UNION {[1..n -> RepairAlphabet] : n \in 0..MaxText} \cup ResponseTexts

RepairCalls ==
  {[fn |-> f, content |-> c, tasksLen |-> 0, projectsLen |-> 0] :
     f \in {"closeTruncatedArray", "relaxJson"}, c \in RepairTexts}

ApplyCloseTruncatedArray ==
  /\ call.fn = "closeTruncatedArray"
  /\ ret = NoCall
  /\ ret' = Str(closeTruncatedArray(call.content))
  /\ UNCHANGED <<call, runVars, sideVars>>

ApplyRelaxJson ==
  /\ call.fn = "relaxJson"
  /\ ret = NoCall
  /\ ret' = Str(relaxJson(call.content))
  /\ UNCHANGED <<call, runVars, sideVars>>

\* ---- specifications ----
Init ==
  /\ settings \in RunSettings
  /\ store \in [inbox : Inboxes, projects : ProjectLists]
  /\ RunIdle
  /\ SideIdle
  /\ call = NoCall
  /\ ret = NoCall

Enrichment ==
  \E k \in 1..Len(TaskPool) : MetaResolve(k) \/ MetaReject(k) \/ UpdateResolve(k) \/ UpdateReject(k)

Next ==
  \/ Start
  \/ FetchResolve
  \/ FetchReject
  \/ Enrichment
  \/ ChunkDone
  \/ Phase1Resolve
  \/ Phase1Reject
  \/ Phase1RetryResolve
  \/ Phase2Resolve
  \/ Phase2Reject

\* runs of smartSort over the inboxes and project lists
Spec == Init /\ [][Next]_vars

\* runs of smartSort over every combination of the configuration fields
InitConfig ==
  /\ settings \in AllSettings
  /\ store = [inbox |-> <<TaskPool[1]>>, projects |-> <<ProjectPool[1]>>]
  /\ RunIdle
  /\ SideIdle
  /\ call = NoCall
  /\ ret = NoCall

SpecConfig == InitConfig /\ [][Next]_vars

\* smartSort up to the return of preprocessTasks, over an inbox of tasks that
\* all need enrichment and a cap that keeps them all
InitEnrich ==
  /\ settings \in {Settings("openrouter", <<"k">>, <<>>, <<"m">>, <<>>, MaxUrlTasks)}
  /\ store = [inbox |-> UrlInbox, projects |-> <<>>]
  /\ RunIdle
  /\ SideIdle
  /\ call = NoCall
  /\ ret = NoCall

NextEnrich == Start \/ FetchResolve \/ Enrichment \/ ChunkDone

SpecEnrich == InitEnrich /\ [][NextEnrich]_vars

\* two invocations of smartSort over one store, interleaved at their
\* suspension points
InitTwo ==
  /\ settings \in {Settings("openrouter", <<"k">>, <<>>, <<"m">>, <<>>, 1)}
  /\ store = [inbox |-> <<TaskPool[1]>>, projects |-> <<ProjectPool[1]>>]
  /\ RunIdle
  /\ other = IdleRun
  /\ BlockIdle
  /\ call = NoCall
  /\ ret = NoCall

NextTwo == Next \/ Switch

SpecTwo == InitTwo /\ [][NextTwo]_vars

\* calls of the parsers on response texts
InitParse ==
  /\ settings \in {Settings("ollama", <<>>, <<>>, <<"m">>, <<>>, 1)}
  /\ store = [inbox |-> <<>>, projects |-> <<>>]
  /\ RunIdle
  /\ SideIdle
  /\ call \in ParseCalls
  /\ ret = NoCall

NextParse == ApplyParsePhase1 \/ ApplyParsePhase2

SpecParse == InitParse /\ [][NextParse]_vars

\* calls of the repair functions on texts
InitRepair ==
  /\ settings \in {Settings("ollama", <<>>, <<>>, <<"m">>, <<>>, 1)}
  /\ store = [inbox |-> <<>>, projects |-> <<>>]
  /\ RunIdle
  /\ SideIdle
  /\ call \in RepairCalls
  /\ ret = NoCall

NextRepair == ApplyCloseTruncatedArray \/ ApplyRelaxJson

SpecRepair == InitRepair /\ [][NextRepair]_vars

\* ------------------------------------------------------------------------
\* Properties
\* ------------------------------------------------------------------------
\* the project value an element of a response array carries
projectValueOf(x) ==
  IF x.t = "num" THEN x ELSE IF x.t = "obj" THEN Prop(x, KeyProject) ELSE Undefined

\* a number within [0, N]
withinRange(x, N) == x.t = "num" /\ 0 <= x.n /\ x.n <= N * x.d

phase1Called == call.fn = "parsePhase1Response" /\ ret # NoCall
phase2Called == call.fn = "parsePhase2Response" /\ ret # NoCall

\* what a Phase 1 array must be to be accepted: taskCount elements, each
\* carrying a project number within [0, projectCount]
wellFormedPhase1(v, taskCount, projectCount) ==
  /\ v.t = "arr"
  /\ Len(v.e) = taskCount
  /\ \A i \in 1..Len(v.e) : withinRange(projectValueOf(v.e[i]), projectCount)

phase1FailClosed(v) ==
  /\ ret.t # "null" =>
       /\ wellFormedPhase1(v, call.tasksLen, call.projectsLen)
       /\ ret.t = "arr"
       /\ Len(ret.e) = call.tasksLen
       /\ \A i \in 1..Len(ret.e) : ret.e[i].project = projectValueOf(v.e[i])
  /\ ~wellFormedPhase1(v, call.tasksLen, call.projectsLen) => ret.t = "null"

\* C1: parsePhase1Response returns an array only when the repaired text parses
\* to an array of exactly taskCount elements whose project values all lie in
\* [0, projectCount], and then the result has that length and the same project
\* values position by position; any other array yields null, never a part of it.
C1_Phase1FailClosed ==
  phase1Called => phase1FailClosed(JSONParse(cleanPhase1(call.content)))

\* a fenced or cut-off two-element response was accepted
C1_Witness ==
  /\ phase1Called
  /\ ret.t = "arr"
  /\ Len(ret.e) = 2
  /\ ret.e[2].project = Num(1)
  /\ call.content # JsonText(JSONParse(cleanPhase1(call.content)))

hasFraction(v, projectCount) ==
  /\ v.t = "arr"
  /\ \E i \in 1..Len(v.e) :
       withinRange(projectValueOf(v.e[i]), projectCount) /\ projectValueOf(v.e[i]).d # 1

\* C2: a response array holding a non-integer project value inside the range
\* [0, projectCount] is rejected as a whole.
C2_IntegerProjectsOnly ==
  (phase1Called /\ hasFraction(JSONParse(cleanPhase1(call.content)), call.projectsLen))
    => ret.t = "null"

everySuggestionShaped(v) ==
  /\ v.t = "arr"
  /\ \A i \in 1..Len(v.e) :
       /\ v.e[i].t = "obj"
       /\ \E k \in 1..Len(v.e[i].kv) : v.e[i].kv[k].k = KeyTask
       /\ \E k \in 1..Len(v.e[i].kv) : v.e[i].kv[k].k = KeySuggestion
       /\ Prop(v.e[i], KeyTask).t = "str"
       /\ Prop(v.e[i], KeySuggestion).t = "str"

phase2AllOrNothing(v) ==
  /\ ret.t # "null" <=> everySuggestionShaped(v)
  /\ ret.t # "null" => ret = v

\* C3: parsePhase2Response returns a list exactly when the repaired text parses
\* to a top-level array whose every element is an object with a string task and
\* a string suggestion; one element lacking either makes the whole result null.
C3_Phase2AllOrNothing ==
  phase2Called => phase2AllOrNothing(JSONParse(cleanPhase2(call.content)))

\* a two-element suggestion list was returned
C3_Witness ==
  /\ phase2Called
  /\ ret.t = "arr"
  /\ Len(ret.e) = 2

\* ---- runs of smartSort ----
returned == pc = "done" /\ outcome.t = "result"

chatCalls(phase) ==
  {k \in 1..Len(calls) : calls[k].op = "simpleChat" /\ calls[k].arg.phase = phase}

\* C4: a chat call that raises an exception, in Phase 1 or in Phase 2, never
\* makes smartSort throw: the run returns a result whose error is set.
C4_ChatFailureReported ==
  (pc = "done" /\ lastReply = Rejected) => (outcome.t = "result" /\ outcome.error.t = "error")

\* C5: no task id appears in two items of a returned result.
C5_TaskAtMostOnce ==
  returned =>
    \A i, j \in 1..Len(outcome.items) :
      i # j => outcome.items[i].taskId # outcome.items[j].taskId

\* ids of the batch tasks that Phase 1 placed: project number above 0 and at
\* most the number of projects
phase1ItemIds ==
  LET kept == SelectSeq([i \in 1..Len(tasks) |-> i],
                        LAMBDA i : /\ assignments.e[i].project.n > 0
                                   /\ withinRange(assignments.e[i].project, Len(projects)))
  IN [j \in 1..Len(kept) |-> tasks[kept[j]].id]

phase2Threw == returned /\ chatCalls(2) # {} /\ lastReply = Rejected

phase2Unparseable ==
  /\ returned
  /\ chatCalls(2) # {}
  /\ lastReply.t = "str"
  /\ ~everySuggestionShaped(JSONParse(cleanPhase2(lastReply.s)))

\* C6: when the Phase 2 call throws or its response cannot be parsed, the result
\* holds exactly the Phase 1 items, in order and all of type existing, its error
\* is set, and after a throw the error says that Phase 2 failed.
C6_Phase2FailureKeepsPhase1Items ==
  (phase2Threw \/ phase2Unparseable) =>
    /\ [i \in 1..Len(outcome.items) |-> outcome.items[i].taskId] = phase1ItemIds
    /\ \A i \in 1..Len(outcome.items) : outcome.items[i].type = "existing"
    /\ outcome.error.t = "error"
    /\ phase2Threw => outcome.error.prefix = Phase2FailedMsg
    /\ phase2Unparseable => outcome.error.prefix = Phase2ParseMsg

\* the Phase 2 call threw after Phase 1 had placed a task
C6_Witness ==
  /\ phase2Threw
  /\ Len(outcome.items) >= 1
  /\ Len(noFitTasks) >= 1

bothPhase1AttemptsFailed ==
  /\ returned
  /\ Cardinality(chatCalls(1)) = 2
  /\ assignments.t = "null"
  /\ lastReply.t = "str"

\* C7: when the first Phase 1 response and the retry both fail to parse, the raw
\* text carried by the result's error is the retry's response.
C7_RetryTextSurfaced ==
  bothPhase1AttemptsFailed =>
    /\ outcome.error.t = "error"
    /\ outcome.error.detail =
         (IF \E i \in 1..Len(lastReply.s) : lastReply.s[i] \notin Ws
            THEN lastReply.s ELSE EmptyResponse)

allBlank(s) == \A i \in 1..Len(s) : s[i] \in Ws

clientReady ==
  \/ settings.llmProvider \in {"openrouter", "openai"} /\ ~allBlank(settings.llmApiKey)
  \/ settings.llmProvider = "custom" /\ ~allBlank(settings.llmBaseUrl)
  \/ settings.llmProvider = "ollama"

modelMissing == allBlank(settings.llmModelOverrides) /\ allBlank(settings.llmModel)

\* C8: when the chat client is not configured, or the override and the default
\* model are both empty after trimming, smartSort throws a configuration error
\* and makes no fetch, update or chat call.
C8_ConfigCheckedFirst ==
  (~clientReady \/ modelMissing) =>
    /\ calls = <<>>
    /\ enrich = <<>>
    /\ pc \in {"start", "done"}
    /\ pc = "done" => (outcome.t = "thrown" /\ outcome.kind = "config")

\* a configured client with whitespace-only model fields was turned away
C8_Witness ==
  /\ clientReady
  /\ modelMissing
  /\ settings.llmModel # <<>>
  /\ pc = "done"
  /\ outcome = Thrown("config", NoModelMsg)
  /\ calls = <<>>

cappedCount ==
  IF Len(rawTasks) < settings.smartSortMaxTasksPerBatch
    THEN Len(rawTasks) ELSE settings.smartSortMaxTasksPerBatch

\* C9: in a run that reached Phase 1, every Phase 1 prompt lists min(T, M)
\* tasks, and the result, on success and on every failure path, reports
\* totalCount = T and processedCount = min(T, M), for T fetched tasks and cap M.
C9_CountsReported ==
  chatCalls(1) # {} =>
    /\ \A k \in chatCalls(1) : Len(calls[k].arg.tasksList) = cappedCount
    /\ returned => /\ outcome.totalCount = Len(rawTasks)
                   /\ outcome.processedCount = cappedCount

\* an inbox larger than the cap, reported after Phase 2 could not be parsed
C9_Witness ==
  /\ phase2Unparseable
  /\ Len(rawTasks) > settings.smartSortMaxTasksPerBatch
  /\ outcome.totalCount = Len(rawTasks)
  /\ outcome.processedCount = settings.smartSortMaxTasksPerBatch

\* C10: every item of a result belongs to a fetched inbox task inside the capped
\* batch; tasks cut off by the cap never appear.
C10_ItemsWithinBatch ==
  returned =>
    \A i \in 1..Len(outcome.items) :
      /\ \E k \in 1..cappedCount : rawTasks[k].id = outcome.items[i].taskId
      /\ \A k \in (cappedCount + 1)..Len(rawTasks) : rawTasks[k].id # outcome.items[i].taskId

\* tasks were cut off and Phase 2 placed one of the batch
C10_Witness ==
  /\ returned
  /\ Len(rawTasks) > cappedCount
  /\ \E i \in 1..Len(outcome.items) : outcome.items[i].type # "existing"
  /\ outcome.error = NoError

\* ---- enrichment and the cap ----
enrichmentCalls == {k \in 1..Len(calls) : calls[k].op \in {"fetchMetadata", "updateTask"}}

\* C11: no metadata fetch and no updateTask call is made for a task that the
\* per-batch cap excludes from the run.
C11_NoEnrichmentBeyondCap ==
  \A k \in enrichmentCalls :
    \E j \in 1..cappedCount : rawTasks[j].id = calls[k].arg.id

C13_SnapshotMatchesStore ==
  \A k \in 1..Len(tasks) :
    \E j \in 1..Len(store.inbox) : store.inbox[j] = tasks[k]

preprocessed == pc \in {"phase1", "phase1retry", "phase2", "done"} /\ outcome.t # "thrown"

\* C14: when the capped batch is empty the run ends at once with no items,
\* processedCount 0 and the error 'No inbox tasks to sort.', and no chat call
\* is made.
C14_EmptyBatch ==
  (preprocessed /\ cappedCount = 0) =>
    /\ pc = "done"
    /\ outcome.t = "result"
    /\ outcome.items = <<>>
    /\ outcome.processedCount = 0
    /\ outcome.error = Error(NoTasksMsg, <<>>)
    /\ chatCalls(1) \cup chatCalls(2) = {}

\* a run over an empty inbox has returned
C14_Witness ==
  /\ returned
  /\ Len(calls) = 2
  /\ rawTasks = <<>>
  /\ outcome.error = Error(NoTasksMsg, <<>>)

\* ---- the repair functions ----
closeCalled == call.fn = "closeTruncatedArray" /\ ret # NoCall
relaxCalled == call.fn = "relaxJson" /\ ret # NoCall

\* the trimmed text without its last character when that is a comma, closed
closedText(t) ==
  (IF t[Len(t)] = "," THEN SubSeq(t, 1, Len(t) - 1) ELSE t) \o <<"]">>

looksTruncated(t) == t # <<>> /\ t[1] = "[" /\ t[Len(t)] # "]"

\* C15: closeTruncatedArray returns, for a text whose trimmed form starts with
\* '[' and does not end with ']', the trimmed text without a dangling trailing
\* comma and with ']' appended; it returns any other text unchanged; and applying
\* it to its own result changes nothing.
C15_CloseTruncatedArray ==
  closeCalled =>
    /\ ret.s = (IF looksTruncated(Trim(call.content))
                  THEN closedText(Trim(call.content)) ELSE call.content)
    /\ closeTruncatedArray(ret.s) = ret.s

\* a cut-off array with surrounding blanks and a dangling comma was closed
C15_Witness ==
  /\ closeCalled
  /\ call.content = <<SP, "[", "1", ",">>
  /\ ret.s = <<"[", "1", "]">>

\* C16: relaxJson returns every valid JSON text unchanged, also one whose string
\* values hold a comma followed by ']' or '}'.
C16_ValidJsonUnchanged ==
  (relaxCalled /\ JSONParse(call.content).t # "error") => ret.s = call.content

\* ---- sequencing of the chat calls ----
\* this step makes a chat call of the given phase
chatCallMade(phase) ==
  /\ Len(calls') = Len(calls) + 1
  /\ calls'[Len(calls')].op = "simpleChat"
  /\ calls'[Len(calls')].arg.phase = phase

\* the latest chat response does not parse for the batch
replyUnparseable ==
  /\ lastReply.t = "str"
  /\ ~wellFormedPhase1(JSONParse(cleanPhase1(lastReply.s)), Len(tasks), Len(projects))

\* a Phase 1 call is the retry exactly when another Phase 1 call came before it,
\* and the retry is made only as the first call completes with a response
retryStep ==
  chatCallMade(1) =>
    /\ calls'[Len(calls')].arg.retry <=> chatCalls(1) # {}
    /\ calls'[Len(calls')].arg.retry => (pc = "phase1" /\ pc' = "phase1retry" /\ lastReply'.t = "str")

\* while the retry is awaited the first response is one that failed to parse;
\* once the run has gone past a single Phase 1 call its response had parsed
retryWhenUnparseable ==
  /\ Cardinality(chatCalls(1)) <= 2
  /\ pc = "phase1retry" => (Cardinality(chatCalls(1)) = 2 /\ replyUnparseable)
  /\ (Cardinality(chatCalls(1)) = 1 /\ lastReply.t = "str" /\ (pc = "phase2" \/ chatCalls(2) = {}))
       => ~replyUnparseable

\* C17: a run makes at most two Phase 1 chat calls; the retry call is made if
\* and only if the first call has completed with a response that fails to
\* parse, and no Phase 1 call follows the retry.
C17_Phase1AtMostTwoCalls == []retryWhenUnparseable /\ [][retryStep]_vars

\* the retry was made and its response parsed
C17_Witness ==
  /\ returned
  /\ Cardinality(chatCalls(1)) = 2
  /\ assignments.t = "arr"
  /\ outcome.error = NoError

\* positions of the batch that Phase 1 left without an existing project
noFitPositions ==
  {i \in 1..Len(tasks) :
     ~(assignments.e[i].project.n > 0 /\ withinRange(assignments.e[i].project, Len(projects)))}

phase2Step ==
  chatCallMade(2) => (pc \in {"phase1", "phase1retry"} /\ lastReply'.t = "str")

phase2Sequenced ==
  /\ Cardinality(chatCalls(2)) <= 1
  /\ Cardinality(chatCalls(1) \cup chatCalls(2)) <= 3
  /\ \A k \in chatCalls(2) :
       /\ chatCalls(1) # {}
       /\ \A j \in chatCalls(1) : j < k
       /\ assignments.t = "arr"
       /\ noFitPositions # {}
       /\ Len(calls[k].arg.tasksList) = Cardinality(noFitPositions)
  /\ (pc \in {"phase2", "done"} /\ assignments.t = "arr" /\ noFitPositions = {})
       => chatCalls(2) = {}

\* C18: the Phase 2 chat call is made at most once per run, in the step where
\* a Phase 1 call completes, only when Phase 1 parsed assignments that leave
\* some task without an existing project; when every task is placed no Phase 2
\* call is made; a run makes at most three chat calls.
C18_Phase2Sequenced == []phase2Sequenced /\ [][phase2Step]_vars

\* a run that made the first call, the retry and the Phase 2 call
C18_Witness ==
  /\ returned
  /\ Cardinality(chatCalls(1)) = 2
  /\ Cardinality(chatCalls(2)) = 1
  /\ calls[Len(calls)].arg.phase = 2

\* the retry has completed with a response that does not parse either
retryUnparseable ==
  /\ Cardinality(chatCalls(1)) = 2
  /\ pc # "phase1retry"
  /\ pc = "phase2" \/ chatCalls(2) = {}
  /\ replyUnparseable

\* C19: when both Phase 1 responses fail to parse the run stops: it returns a
\* result with no items and its error set, and makes no Phase 2 chat call.
C19_Phase1FailureStopsRun ==
  retryUnparseable =>
    /\ pc = "done"
    /\ outcome.t = "result"
    /\ outcome.items = <<>>
    /\ outcome.error.t = "error"
    /\ outcome.error.prefix = Phase1ParseMsg
    /\ chatCalls(2) = {}

\* a batch of two tasks was given up after the retry
C19_Witness ==
  /\ retryUnparseable
  /\ returned
  /\ Len(tasks) = 2
  /\ outcome.items = <<>>
  /\ calls[Len(calls)].arg.retry

\* ---- Phase 1 resolution ----
existingItems == SelectSeq(items, LAMBDA it : it.type = "existing")

namesProject(p) == p.d = 1 /\ p.n >= 1 /\ p.n <= Len(projects)

resolved(i, p) ==
  IF namesProject(p)
    THEN /\ Cardinality({k \in 1..Len(existingItems) : existingItems[k].taskId = tasks[i].id}) = 1
         /\ \A k \in 1..Len(existingItems) :
              existingItems[k].taskId = tasks[i].id
                => existingItems[k].projectName = projects[p.n].name
         /\ \A k \in 1..Len(noFitTasks) : noFitTasks[k].id # tasks[i].id
    ELSE /\ \A k \in 1..Len(existingItems) : existingItems[k].taskId # tasks[i].id
         /\ \E k \in 1..Len(noFitTasks) : noFitTasks[k] = tasks[i]

\* C20: once Phase 1 has parsed assignments, task i of the batch has exactly
\* one 'existing' item, named after the project at position assignments[i].project,
\* when that value is one of 1..N, and is otherwise in the no-fit set; every
\* 'existing' item names a project of the offered list.
C20_Phase1Partition ==
  (assignments.t = "arr" /\ pc \in {"phase2", "done"}) =>
    /\ \A i \in 1..Len(tasks) : resolved(i, assignments.e[i].project)
    /\ \A k \in 1..Len(existingItems) :
         \E j \in 1..Len(projects) : projects[j].name = existingItems[k].projectName

\* ---- Phase 2 matching ----
suggestedItems == SelectSeq(outcome.items, LAMBDA it : it.type # "existing")

\* the suggestion names a task of the no-fit set, letter case and outer blanks aside
namesNoFitTask(sg) ==
  \E k \in 1..Len(noFitTasks) :
    ToLowerCase(Trim(noFitTasks[k].name)) = ToLowerCase(Trim(Prop(sg, KeyTask).s))

\* the item is what the suggestion asks for, for a no-fit task of that name
itemOf(it, sg) ==
  /\ it.projectName = Prop(sg, KeySuggestion).s
  /\ it.type = (IF Prop(sg, KeyType) = Str(AreaText) THEN "area" ELSE "project")
  /\ \E k \in 1..Len(noFitTasks) :
       /\ noFitTasks[k].id = it.taskId
       /\ ToLowerCase(Trim(noFitTasks[k].name)) = ToLowerCase(Trim(Prop(sg, KeyTask).s))

\* the suggested items are, in order, those of the suggestions naming a no-fit task
matched(v) ==
  LET hits == SelectSeq(v.e, namesNoFitTask)
  IN /\ Len(suggestedItems) = Len(hits)
     /\ \A i \in 1..Len(hits) : itemOf(suggestedItems[i], hits[i])
     /\ outcome.error = NoError

phase2Parsed ==
  /\ returned
  /\ chatCalls(2) # {}
  /\ lastReply.t = "str"
  /\ everySuggestionShaped(JSONParse(cleanPhase2(lastReply.s)))

\* C21: on a parsed Phase 2 response each suggestion whose task name equals,
\* after trimming and lower-casing, the name of a no-fit task yields one item
\* with that task's id, the suggested destination, and type 'area' exactly when
\* the suggestion's type is 'area' and 'project' otherwise; a suggestion naming
\* no no-fit task yields no item and no error.
C21_Phase2Matching ==
  phase2Parsed => matched(JSONParse(cleanPhase2(lastReply.s)))

\* a response with a suggestion for an unknown task gave no item and no error
C21_Witness ==
  /\ phase2Parsed
  /\ suggestedItems = <<>>
  /\ lastReply.s # <<"[", "]">>
  /\ outcome.error = NoError

\* ---- concurrency of the enrichment ----
inFlight == {k \in DOMAIN enrich : enrich[k].st \in {"fetching", "updating"}}

\* the chunk of three that position k falls in
chunkNo(k) == (k - 1) \div 3

\* C22: at most 3 enrichments are in flight at any moment, and an enrichment of
\* a later chunk has started only when every enrichment of the earlier chunks
\* has completed.
C22_ChunkedEnrichment ==
  /\ Cardinality(inFlight) <= 3
  /\ \A k \in DOMAIN enrich :
       enrich[k].st # "idle" =>
         \A j \in DOMAIN enrich : chunkNo(j) < chunkNo(k) => enrich[j].st = "done"

\* the fourth task is being fetched after the first three were enriched
C22_Witness ==
  /\ Len(enrich) >= 4
  /\ enrich[4].st = "fetching"
  /\ \A j \in 1..3 : enrich[j].st = "done" /\ enrich[j].task # rawTasks[j]

\* C23: what preprocessTasks returns has one task per input task, and the task
\* at position i is input task i, as it was or renamed, with the same id,
\* whatever order the enrichments completed in.
C23_OrderPreserved ==
  (preprocessed /\ rawTasks # <<>>) =>
    /\ Len(tasks) = cappedCount
    /\ Len(enrich) = Len(rawTasks)
    /\ \A i \in 1..Len(rawTasks) : enrich[i].task.id = rawTasks[i].id
    /\ \A i \in 1..Len(tasks) :
         /\ tasks[i] = enrich[i].task
         /\ tasks[i] = rawTasks[i] \/ \E m \in Metas : tasks[i].name = m.title

\* the third task's update was made before the first task's, and both renamed
C23_Witness ==
  /\ pc = "phase1"
  /\ Len(tasks) >= 4
  /\ tasks[1].name = <<"T">>
  /\ tasks[3].name = <<"a">>
  /\ tasks[2] = rawTasks[2]
  /\ \E i, j \in 1..Len(calls) :
       /\ i < j
       /\ calls[i].op = "updateTask" /\ calls[i].arg.id = rawTasks[3].id
       /\ calls[j].op = "updateTask" /\ calls[j].arg.id = rawTasks[1].id

\* ---- two invocations ----
\* the locals of the invocation that is running
thisRun ==
  Locals(pc, projects, rawTasks, chunkAt, enrich, tasks, phase1Content, retryContent,
         assignments, items, noFitTasks, outcome, calls, lastReply)

\* what an invocation received: fetched projects and tasks, enrichment outcomes,
\* chat settlements
received(r) ==
  <<r.projects, r.rawTasks, r.enrich, r.phase1Content, r.retryContent, r.assignments,
    r.lastReply>>

finished(r) == r.pc = "done"

\* the batch is the invocation's own enriched tasks, the counts are its own
ownBatch(r) ==
  /\ r.tasks # <<>> =>
       r.tasks = Slice([k \in 1..Len(r.rawTasks) |-> r.enrich[k].task], maxBatch)
  /\ (finished(r) /\ r.outcome.t = "result" /\ r.rawTasks # <<>>) =>
       /\ r.outcome.processedCount = Len(r.tasks)
       /\ r.outcome.totalCount = Len(r.rawTasks)

handlers == BagToSet(accepts)

\* handler a ends, or goes on, in this step
leaves(a) == CopiesIn(a, accepts') < CopiesIn(a, accepts)
enters(b) == CopiesIn(b, accepts') > CopiesIn(b, accepts)

opsOf(a, op) == {i \in 1..Len(a.log) : a.log[i].op = op}

\* a 'project' or 'area' handler calls createProject at most once, after a
\* failed first move; an 'existing' handler calls moveTaskToProject only
acceptLog(a) ==
  /\ a.item.type = "existing" => \A i \in 1..Len(a.log) : a.log[i].op = "moveTaskToProject"
  /\ Cardinality(opsOf(a, "createProject")) <= 1
  /\ \A i \in opsOf(a, "createProject") :
       /\ a.item.type # "existing"
       /\ a.log[1] = Entry("moveTaskToProject", "failed")
       /\ Cardinality({j \in 1..(i - 1) : a.log[j].op = "moveTaskToProject"}) = 1

nameTaken(name) ==
  \E i \in 1..Len(omni.projects) : ToLowerCase(omni.projects[i]) = ToLowerCase(name)

\* createProject is called only when no project name equals the destination
createdWhenMissing ==
  \A b \in BagToSet(accepts') :
    (enters(b) /\ b.log[Len(b.log)] = Entry("createProject", "pending")) =>
      ~nameTaken(b.item.projectName)

\* the handler that awaited createProject goes on with a second move
secondMoveFollows(a) ==
  \E b \in BagToSet(accepts') :
    /\ enters(b)
    /\ b.item = a.item
    /\ b.attempt = 2
    /\ b.log = Append(settle(a.log, "ok"), Entry("moveTaskToProject", "pending"))

createFollowed ==
  \A a \in handlers : (a.pc = "creating" /\ leaves(a)) => secondMoveFollows(a)

createdThenMoved ==
  \A a \in handlers :
    (a.pc = "creating" /\ leaves(a) /\ omni'.projects # omni.projects) => secondMoveFollows(a)

\* C25 as stated: 'existing' only moves; 'project' and 'area' create at most
\* once, only after a failed first move and only when no project name equals the
\* destination case-insensitively, and every createProject call is followed by a
\* second move attempt
C25_AcceptProtocolAlwaysMoves ==
  /\ [](\A a \in handlers : acceptLog(a))
  /\ [][createdWhenMissing /\ createFollowed]_vars

\* C25: the same, with the second move attempt following every createProject
\* call that succeeded
C25_AcceptProtocol ==
  /\ [](\A a \in handlers : acceptLog(a))
  /\ [][createdWhenMissing /\ createdThenMoved]_vars

\* a handler making its second move after it created the project
C25_Witness ==
  \E a \in handlers :
    /\ a.attempt = 2
    /\ a.pc = "script"
    /\ a.log = <<Entry("moveTaskToProject", "failed"), Entry("fetchProjectNames", "ok"),
                 Entry("createProject", "ok"), Entry("moveTaskToProject", "pending")>>

\* the list after the suggestions of one task were taken out
filtered(taskId) ==
  LET kept == SelectSeq(resultsOf(block), LAMBDA x : x.taskId # taskId)
  IN IF Len(kept) = 0 THEN Null ELSE List(kept)

\* the step is a decline: no store operation, the task's suggestions leave
declined ==
  /\ omni' = omni
  /\ accepts' = accepts
  /\ \E k \in 1..Len(resultsOf(block)) :
       block'.smartSortResults = filtered(resultsOf(block)[k].taskId)

\* the step ends an accept whose move succeeded
acceptedBy(a) ==
  /\ a.pc = "script"
  /\ leaves(a)
  /\ fetches' = fetches + 1

accepted ==
  \E a \in handlers :
    /\ acceptedBy(a)
    /\ omni' = moved(omni, a.item.taskId, a.target)
    /\ block'.smartSortResults = filtered(a.item.taskId)

\* the step ends an accept in failure
failedBy(a) == leaves(a) /\ accepts' = Without(a) /\ fetches' = fetches

\* the step ends a Smart Sort run, which sets the list anew
sorted == sorts' = sorts - 1

listChanged == block'.smartSortResults # block.smartSortResults

C27_MovedToNamedProject ==
  [][\A a \in handlers :
       (acceptedBy(a) /\ a.item.type # "existing") =>
         ToLowerCase(omni'.projects[omni'.project[a.item.taskId]])
           = ToLowerCase(a.item.projectName)]_vars

\* C28: an accept that ends in failure has changed nothing in the store: it has
\* neither created a project nor moved the task
C28_FailedAcceptChangesNothing ==
  [][\A a \in handlers :
       failedBy(a) => \A i \in 1..Len(a.log) :
                        ~(a.log[i].op \in {"createProject", "moveTaskToProject"}
                          /\ a.log[i].st = "ok")]_vars

\* ---- the flags of the block ----
\* C29: smartSorting is true while a Smart Sort run is in flight, so the buttons
\* stay disabled and no second run is started
C29_SmartSortingWhileInFlight ==
  /\ sorts > 0 => (block.smartSorting /\ buttonsDisabled(block))
  /\ sorts <= 1

\* the step is a fetchTasks call resolving
fetched ==
  /\ fetches' = fetches - 1
  /\ block' = [block EXCEPT !.status = "ready", !.syncing = FALSE, !.smartSorting = FALSE,
                            !.tasks = List(inboxOf(omni))]

\* C30: when a task fetch has completed successfully the block carries no error
\* and shows the fetched tasks
C30_FetchClearsError ==
  [][fetched => (block'.error = Undefined /\ listShown(block') = List(inboxOf(omni)))]_vars

====
